---- MODULE Spec2Model ----
(***************************************************************************)
(* llmpr: the run of main, the context-aware completion loop               *)
(* (sendPromptToOpenAI), the post-processing of its final answer and the   *)
(* rendering of the directory tree, src/src/index.ts.                      *)
(*                                                                         *)
(* Text is a sequence of one-character strings wherever the code looks at  *)
(* characters (answers of the model, requested paths).  Text the code only *)
(* concatenates (prompts, context blocks) is a sequence of fragments.      *)
(***************************************************************************)
EXTENDS Integers, Sequences, FiniteSets, TLC

\* ------------------------------------------------------------------ bounds
\* longest input of the post-processing check, in pieces
MaxPieces == 4
\* longest answer of the model in the loop, in pieces
MaxAnswerPieces == 2

\* most entries of a working tree in the tree check
MaxEntries == 6
\* most changed files in the tree check
MaxChanged == 2
\* longest requested path in the read check, in characters
MaxPathLen == 4

\* createPullRequest calls followed in one PR flow
MaxCreateCalls == 3

\* --------------------------------------------------------------- constants
maxRounds == 3

\* the literal "[NEED_CONTEXT:" of both regular expressions
Open == <<"[", "N", "E", "E", "D", "_", "C", "O", "N", "T", "E", "X", "T", ":">>
\* the backquote character (the module language has no string for it)
BQ == "BQ"
\* the literal of three backquotes that opens or closes a fence
Fence == <<BQ, BQ, BQ>>
\* characters String.prototype.trim removes
WhiteSpace == {" ", "\n", "\t", "\r"}

\* ----------------------------------------------------------- text helpers
RECURSIVE Flatten(_)
Flatten(ss) == IF ss = <<>> THEN <<>> ELSE Head(ss) \o Flatten(Tail(ss))

SeqsUpTo(S, n) == UNION {[1..k -> S] : k \in 0..n}

\* s.slice(from, to) with 0-based from (inclusive) and to (exclusive)
Slice(s, from, to) ==
    IF to <= from THEN <<>> ELSE SubSeq(s, from + 1, IF to > Len(s) THEN Len(s) ELSE to)

\* p occurs in s at 1-based position i
OccursAt(s, p, i) ==
    /\ i >= 1
    /\ i + Len(p) - 1 <= Len(s)
    /\ \A k \in 1..Len(p) : s[i + k - 1] = p[k]

\* s.startsWith(p)
StartsWith(s, p) == OccursAt(s, p, 1)

\* s.includes(c) for a single character c
Includes(s, c) == \E i \in 1..Len(s) : s[i] = c

\* s.trim()
RECURSIVE TrimStart(_)
TrimStart(s) == IF s # <<>> /\ Head(s) \in WhiteSpace THEN TrimStart(Tail(s)) ELSE s

RECURSIVE TrimEnd(_)
TrimEnd(s) ==
    IF s # <<>> /\ s[Len(s)] \in WhiteSpace THEN TrimEnd(SubSeq(s, 1, Len(s) - 1)) ELSE s

Trim(s) == TrimEnd(TrimStart(s))

\* s.split(newline): the lines of s, always at least one
RECURSIVE Split(_)
Split(s) ==
    IF ~Includes(s, "\n") THEN <<s>>
    ELSE LET i == CHOOSE k \in 1..Len(s) : s[k] = "\n" /\ \A j \in 1..(k - 1) : s[j] # "\n"
         IN  <<SubSeq(s, 1, i - 1)>> \o Split(SubSeq(s, i + 1, Len(s)))

\* parts.join(sep)
RECURSIVE Join(_, _)
Join(parts, sep) ==
    IF parts = <<>> THEN <<>>
    ELSE IF Len(parts) = 1 THEN parts[1]
    ELSE parts[1] \o sep \o Join(Tail(parts), sep)

\* ------------------------------------------- /\[NEED_CONTEXT:([^\]]+)\]/g
\* first position >= i holding "]", or 0
RECURSIVE NextClose(_, _)
NextClose(s, i) ==
    IF i > Len(s) THEN 0 ELSE IF s[i] = "]" THEN i ELSE NextClose(s, i + 1)

\* content.matchAll(...): the matches from position i on, left to right, each
\* with its extent and its capture group; the scan resumes after a match
RECURSIVE MatchAllFrom(_, _)
MatchAllFrom(s, i) ==
    IF i > Len(s) THEN <<>>
    ELSE IF OccursAt(s, Open, i)
    THEN LET j == i + Len(Open)
             k == NextClose(s, j)
         IN  IF k > j
             THEN <<[from |-> i, to |-> k, group |-> SubSeq(s, j, k - 1)]>>
                      \o MatchAllFrom(s, k + 1)
             ELSE MatchAllFrom(s, i + 1)
    ELSE MatchAllFrom(s, i + 1)

MatchAll(s) == MatchAllFrom(s, 1)

\* content.replace(/\[NEED_CONTEXT:[^\]]+\]/g, empty): one pass, the text between
\* the matches is kept and joined
RECURSIVE CutMatches(_, _, _)
CutMatches(s, ms, i) ==
    IF ms = <<>> THEN SubSeq(s, i, Len(s))
    ELSE SubSeq(s, i, Head(ms).from - 1) \o CutMatches(s, Tail(ms), Head(ms).to + 1)

StripMarkers(content) == CutMatches(content, MatchAll(content), 1)

\* ----------------------------------------------------------- fence removal
\* lines.findIndex((line, i) => i > 0 && line === fence), 0-based, -1 if none
EndIndexAny(lines) ==
    IF \E i \in 1..Len(lines) : lines[i] = Fence
    THEN (CHOOSE i \in 1..Len(lines) :
              lines[i] = Fence /\ \A j \in 1..(i - 1) : lines[j] # Fence) - 1
    ELSE -1

EndIndex(lines) ==
    IF \E i \in 2..Len(lines) : lines[i] = Fence
    THEN (CHOOSE i \in 2..Len(lines) :
              lines[i] = Fence /\ \A j \in 2..(i - 1) : lines[j] # Fence) - 1
    ELSE -1

\* lines.slice(1, lines.length - 1) of the first branch
InnerKeepLast(lines) == Slice(lines, 1, Len(lines))

Inner(lines) == Slice(lines, 1, Len(lines) - 1)

\* the guard of the whole step
FenceGuardStrict(content) == StartsWith(content, Fence \o <<"\n">>)

FenceGuard(content) == StartsWith(content, Fence) /\ Includes(content, "\n")

RemoveFence(content) ==
    IF FenceGuard(content)
    THEN LET lines == Split(content)
         IN  IF StartsWith(lines[1], Fence) /\ lines[Len(lines)] = Fence
             THEN Join(Inner(lines), <<"\n">>)
             ELSE IF StartsWith(lines[1], Fence)
             THEN LET endIndex == EndIndex(lines)
                  IN  IF endIndex # -1
                      THEN Join(Slice(lines, 1, endIndex), <<"\n">>)
                      ELSE content
             ELSE content
    ELSE content

\* lines 327-346: what sendPromptToOpenAI returns for the final answer
PostProcess(content) == RemoveFence(StripMarkers(content))


\* ------------------------------------------------ context resolution
\* the files a requested path can name, and what statSync/readFileSync find
Paths == {<<"a">>, <<"b">>}

FileStates ==
    { [kind |-> "file", text |-> <<"hello">>],
      [kind |-> "missing", text |-> <<>>],
      [kind |-> "dir", text |-> <<>>] }

\* the file systems a run starts on: a is a regular file or absent, b is absent
\* or a directory
FileSystems ==
    {f \in [Paths -> FileStates] : f[<<"a">>].kind # "dir" /\ f[<<"b">>].kind # "file"}

\* process.cwd(), a directory
Cwd == <<"/", "w">>

\* the parts of a path between its slashes
RECURSIVE SplitPath(_)
SplitPath(s) ==
    IF ~Includes(s, "/") THEN <<s>>
    ELSE LET i == CHOOSE k \in 1..Len(s) : s[k] = "/" /\ \A j \in 1..(k - 1) : s[j] # "/"
         IN  <<SubSeq(s, 1, i - 1)>> \o SplitPath(SubSeq(s, i + 1, Len(s)))

\* the names an absolute path goes through: empty parts and single dots are
\* skipped, a double dot steps back to the parent, and not above the root
RECURSIVE Resolve(_, _)
Resolve(parts, done) ==
    IF parts = <<>> THEN done
    ELSE IF Head(parts) = <<>> \/ Head(parts) = <<".">> THEN Resolve(Tail(parts), done)
    ELSE IF Head(parts) = <<".", ".">>
    THEN Resolve(Tail(parts), IF done = <<>> THEN <<>> ELSE SubSeq(done, 1, Len(done) - 1))
    ELSE Resolve(Tail(parts), Append(done, Head(parts)))

Segments(absolute) == Resolve(SplitPath(absolute), <<>>)

\* path.normalize of an absolute path; a trailing slash is kept
Normalize(absolute) ==
    LET segs == Segments(absolute)
    IN  IF segs = <<>> THEN <<"/">>
        ELSE <<"/">> \o Join(segs, <<"/">>)
                 \o (IF absolute[Len(absolute)] = "/" THEN <<"/">> ELSE <<>>)

\* path.isAbsolute
isAbsolute(filepath) == filepath # <<>> /\ Head(filepath) = "/"

\* path.join(base, filepath), base absolute
PathJoin(base, filepath) ==
    IF filepath = <<>> THEN Normalize(base)
    ELSE Normalize(base \o <<"/">> \o filepath)

\* path.isAbsolute(filepath) ? filepath : path.join(process.cwd(), filepath)
FullPath(filepath) ==
    IF isAbsolute(filepath) THEN filepath ELSE PathJoin(Cwd, filepath)

\* what the file system holds at a full path
Lookup(files, fullPath) ==
    IF fullPath = Cwd THEN [kind |-> "dir", text |-> <<>>]
    ELSE IF \E p \in DOMAIN files : fullPath = FullPath(p)
    THEN files[CHOOSE p \in DOMAIN files : fullPath = FullPath(p)]
    ELSE [kind |-> "missing", text |-> <<>>]

\* readFileContent: the text of the file, or the Error it throws
readFileContent(files, filepath) ==
    LET entry == Lookup(files, FullPath(filepath))
    IN  IF entry.kind = "missing"
        THEN [ok |-> FALSE, value |-> <<"File not found: ">> \o filepath]
        ELSE IF entry.kind = "dir"
        THEN [ok |-> FALSE, value |-> <<"EISDIR: illegal operation on a directory, read">>]
        ELSE [ok |-> TRUE, value |-> entry.text]

\* the callback of contextRequests.map: one block per match, errors caught
ContextBlockSilent(files, filepath) ==
    LET r == readFileContent(files, filepath)
    IN  IF r.ok
        THEN <<"File content for ">> \o filepath \o <<":\n", BQ, BQ, BQ, "\n">>
                 \o r.value \o <<"\n", BQ, BQ, BQ>>
        ELSE <<>>

ContextBlock(files, filepath) ==
    LET r == readFileContent(files, filepath)
    IN  IF r.ok
        THEN <<"File content for ">> \o filepath \o <<":\n", BQ, BQ, BQ, "\n">>
                 \o r.value \o <<"\n", BQ, BQ, BQ>>
        ELSE <<"Error reading ">> \o filepath \o <<": ">> \o r.value

\* match[1].trim() of every match, in match order
RECURSIVE Dedup(_)
Dedup(ps) ==
    IF ps = <<>> THEN <<>>
    ELSE LET rest == Dedup(SubSeq(ps, 1, Len(ps) - 1))
             last == ps[Len(ps)]
         IN  IF \E i \in 1..Len(rest) : rest[i] = last THEN rest ELSE Append(rest, last)

RequestedPathsUnique(text) ==
    Dedup([i \in 1..Len(MatchAll(text)) |-> Trim(MatchAll(text)[i].group)])

RequestedPaths(text) ==
    [i \in 1..Len(MatchAll(text)) |-> Trim(MatchAll(text)[i].group)]

\* the template of lines 292-300
FollowUpPrompt(blocks) ==
    <<"\nYou previously requested additional context to complete the PR description.\nHere is the requested context:\n\n">>
        \o Join(blocks, <<"\n\n">>)
        \o <<"\n\nBased on this additional information, please generate the complete PR description as requested originally.\nDo NOT request more context with [NEED_CONTEXT:filepath]. This is your final opportunity to generate the PR description.\n">>

\* the messages array callOpenAI posts
callOpenAINoHistory(text, previousMessages) ==
    <<[role |-> "system", content |-> text]>>

callOpenAI(text, previousMessages) ==
    IF Len(previousMessages) > 0
    THEN previousMessages \o <<[role |-> "user", content |-> text]>>
    ELSE <<[role |-> "system", content |-> text]>>

\* the argument of sendPromptToOpenAI
Prompt == <<"initialPrompt">>

\* while (currentRound < maxRounds)
LoopGuardInclusive(round) == round <= maxRounds

LoopGuard(round) == round < maxRounds

\* if (contextRequests.length === 0) break
NoMoreContextNever(text) == FALSE

NoMoreContext(text) == Len(MatchAll(text)) = 0

\* let currentRound = 1
InitialRound == 1

maxDepth == 3

\* currentRound++
NextRoundSkip(round) == round + 2

NextRound(round) == round + 1

\* ------------------------------------------------------------- the inputs
\* pieces the answers of the model are put together from
Piece(name) ==
    CASE name = "open"    -> Open
      [] name = "need"    -> <<"[", "N", "E", "E", "D", "_">>
      [] name = "ctx_a"   -> <<"C", "O", "N", "T", "E", "X", "T", ":", "a", "]">>
      [] name = "a_close" -> <<"a", "]">>
      [] name = "close"   -> <<"]">>
      [] name = "a"       -> <<"a">>
      [] name = "nl"      -> <<"\n">>
      [] name = "fence"   -> Fence
      [] name = "fence_nl" -> Fence \o <<"\n">>
      [] name = "marker_a" -> Open \o <<"a", "]">>
      [] name = "marker_b" -> Open \o <<" ", "b", " ", "]">>
      [] name = "fenced"  -> Fence \o <<"\n", "x", "\n">> \o Fence

TextPieces ==
    {"open", "need", "ctx_a", "a_close", "close", "a", "nl", "fence", "fence_nl"}

AnswerPieces == {"marker_a", "marker_b", "open", "nl", "fenced"}

TextOf(names) == Flatten([i \in 1..Len(names) |-> Piece(names[i])])

Texts == {TextOf(names) : names \in SeqsUpTo(TextPieces, MaxPieces)}

Answers == {TextOf(names) : names \in SeqsUpTo(AnswerPieces, MaxAnswerPieces)}

\* ------------------------------------------------ getDirectoryStructure
\* A path relative to the root is the sequence of its names; the root, which
\* path.dirname and path.relative write as a dot, is the empty sequence.
\* The characters of the names in use.
Chars(name) ==
    CASE name = "a"          -> <<"a">>
      [] name = "B"          -> <<"B">>
      [] name = "b"          -> <<"b">>
      [] name = "c"          -> <<"c">>
      [] name = "d"          -> <<"d">>
      [] name = "e"          -> <<"e">>
      [] name = "f"          -> <<"f">>
      [] name = "g"          -> <<"g">>
      [] name = "h"          -> <<"h">>
      [] name = "x"          -> <<"x">>
      [] name = "Z"          -> <<"Z">>
      [] name = ".github"    -> <<".", "g", "i", "t", "h", "u", "b">>
      [] name = ".gitignore" -> <<".", "g", "i", "t", "i", "g", "n", "o", "r", "e">>
      [] name = "w"          -> <<"w">>

\* the UTF-16 code unit of a character
CodeUnit(ch) ==
    CASE ch = "." -> 46
      [] ch = "B" -> 66
      [] ch = "Z" -> 90
      [] ch = "a" -> 97
      [] ch = "b" -> 98
      [] ch = "c" -> 99
      [] ch = "d" -> 100
      [] ch = "e" -> 101
      [] ch = "f" -> 102
      [] ch = "g" -> 103
      [] ch = "h" -> 104
      [] ch = "i" -> 105
      [] ch = "n" -> 110
      [] ch = "o" -> 111
      [] ch = "r" -> 114
      [] ch = "t" -> 116
      [] ch = "u" -> 117
      [] ch = "w" -> 119
      [] ch = "x" -> 120

IsUpper(ch) == CodeUnit(ch) >= 65 /\ CodeUnit(ch) <= 90

\* the primary weight of the root collation: punctuation before letters,
\* letters in alphabetical order whatever their case
Primary(ch) ==
    IF IsUpper(ch) THEN CodeUnit(ch) + 32 ELSE CodeUnit(ch)

\* the tertiary weight of the root collation: lower case before upper case
Tertiary(ch) == IF IsUpper(ch) THEN 1 ELSE 0

\* the order of two sequences of weights, as -1, 0 or 1
RECURSIVE CompareWeights(_, _)
CompareWeights(u, v) ==
    IF u = <<>> /\ v = <<>> THEN 0
    ELSE IF u = <<>> THEN -1
    ELSE IF v = <<>> THEN 1
    ELSE IF Head(u) < Head(v) THEN -1
    ELSE IF Head(u) > Head(v) THEN 1
    ELSE CompareWeights(Tail(u), Tail(v))

\* what an engine built without ICU does: the order of the code units
CompareCodeUnits(a, b) ==
    CompareWeights([i \in 1..Len(Chars(a)) |-> CodeUnit(Chars(a)[i])],
                   [i \in 1..Len(Chars(b)) |-> CodeUnit(Chars(b)[i])])

\* what an engine with ICU does: the primary weights decide, the case breaks
\* the tie
CompareCollation(a, b) ==
    LET p == CompareWeights([i \in 1..Len(Chars(a)) |-> Primary(Chars(a)[i])],
                            [i \in 1..Len(Chars(b)) |-> Primary(Chars(b)[i])])
    IN  IF p # 0 THEN p
        ELSE CompareWeights([i \in 1..Len(Chars(a)) |-> Tertiary(Chars(a)[i])],
                            [i \in 1..Len(Chars(b)) |-> Tertiary(Chars(b)[i])])

\* the engines a build can run on
Engines == {"icu", "no-icu"}

\* a.localeCompare(b)
localeCompare(engine, a, b) ==
    IF engine = "icu" THEN CompareCollation(a, b) ELSE CompareCodeUnits(a, b)

\* the entries a working tree can hold: files and directories, down to a
\* file at depth 4
File(p) == [path |-> p, isDir |-> FALSE]

Dir(p) == [path |-> p, isDir |-> TRUE]

Universe ==
    { File(<<"a">>), File(<<"B">>), File(<<"b">>), File(<<".gitignore">>),
      Dir(<<".github">>), File(<<".github", "w">>),
      Dir(<<"Z">>), Dir(<<"d">>), File(<<"d", "c">>), Dir(<<"d", "e">>),
      Dir(<<"d", "e", "f">>), Dir(<<"d", "e", "f", "g">>),
      File(<<"d", "e", "f", "g", "h">>) }

\* path.dirname
dirname(p) == SubSeq(p, 1, Len(p) - 1)

\* path.basename
basename(p) == p[Len(p)]

\* every entry lies in a directory of the tree
ParentClosed(disk) ==
    \A entry \in disk :
        Len(entry.path) > 1 => Dir(dirname(entry.path)) \in disk

Trees ==
    { disk \in SUBSET Universe : Cardinality(disk) <= MaxEntries /\ ParentClosed(disk) }

\* the paths git diff --name-only can list: files of the tree, and a file
\* that was deleted
ChangedCandidates ==
    { <<"a">>, <<".gitignore">>, <<".github", "w">>, <<"d", "c">>,
      <<"d", "e", "x">>, <<"d", "e", "f", "g", "h">> }

ChangedSets ==
    { changed \in SUBSET ChangedCandidates : Cardinality(changed) <= MaxChanged }

\* lines 150-156: the parent directories of one changed file
RECURSIVE ParentDirs(_)
ParentDirs(file) ==
    IF dirname(file) = <<>> THEN {}
    ELSE {dirname(file)} \cup ParentDirs(dirname(file))

\* lines 148-159
changedDirs(changed) ==
    UNION { ParentDirs(file) \cup {<<>>} : file \in changed }

\* statSync(itemPath).isDirectory()
isDirectory(disk, itemPath) == Dir(itemPath) \in disk

\* readdirSync(currentPath)
readdirSync(disk, currentPath) ==
    { basename(entry.path) : entry \in { x \in disk : dirname(x.path) = currentPath } }

\* item.startsWith('.git')
IsGitNameExact(item) == Chars(item) = <<".", "g", "i", "t">>

IsGitName(item) == StartsWith(Chars(item), <<".", "g", "i", "t">>)

\* lines 167-183: the filter
KeptDepthZeroOnly(disk, changed, currentPath, depth, item) ==
    /\ ~IsGitName(item)
    /\ depth = 0

Kept(disk, changed, currentPath, depth, item) ==
    /\ ~IsGitName(item)
    /\ LET relativePath == Append(currentPath, item)
       IN  IF isDirectory(disk, relativePath)
           THEN relativePath \in changedDirs(changed) \/ depth = 0
           ELSE relativePath \in changed \/ depth = 0

\* lines 184-191: the comparator of the sort
CompareItemsFilesFirst(disk, engine, currentPath, a, b) ==
    LET aIsDir == isDirectory(disk, Append(currentPath, a))
        bIsDir == isDirectory(disk, Append(currentPath, b))
    IN  IF aIsDir /\ ~bIsDir THEN 1
        ELSE IF ~aIsDir /\ bIsDir THEN -1
        ELSE localeCompare(engine, a, b)

CompareItems(disk, engine, currentPath, a, b) ==
    LET aIsDir == isDirectory(disk, Append(currentPath, a))
        bIsDir == isDirectory(disk, Append(currentPath, b))
    IN  IF aIsDir /\ ~bIsDir THEN -1
        ELSE IF ~aIsDir /\ bIsDir THEN 1
        ELSE localeCompare(engine, a, b)

\* .sort(...): the items in the order of the comparator
RECURSIVE SortItems(_, _, _, _)
SortItems(disk, engine, currentPath, items) ==
    IF items = {} THEN <<>>
    ELSE LET first == CHOOSE a \in items :
                          \A b \in items \ {a} :
                              CompareItems(disk, engine, currentPath, a, b) < 0
         IN  <<first>> \o SortItems(disk, engine, currentPath, items \ {first})

\* the connectors and the indentation of lines 197 and 217, which the source
\* writes with box-drawing characters
ConnectorLast == "L-- "

ConnectorMid == "+-- "

IndentLast == "    "

IndentMid == "|   "

\* line 162: if (depth > maxDepth)
TooDeepLater(depth) == depth > maxDepth + 1

TooDeep(depth) == depth > maxDepth

\* line 163: the line that stands for a subtree
MoreLine(prefix) ==
    [kind |-> "more", path |-> <<>>, isDir |-> FALSE, highlight |-> FALSE,
     text |-> prefix \o <<"... (more items not shown)", "\n">>]

\* lines 195-210: the line of one item
ItemLineOneConnector(disk, changed, currentPath, prefix, item, isLast) ==
    LET relativePath == Append(currentPath, item)
        isDir == isDirectory(disk, relativePath)
    IN  [kind |-> "entry", path |-> relativePath, isDir |-> isDir,
         highlight |-> (~isDir /\ relativePath \in changed),
         text |-> prefix \o <<ConnectorMid>>
                      \o Chars(item) \o (IF isDir THEN <<"/">> ELSE <<>>) \o <<"\n">>]

ItemLine(disk, changed, currentPath, prefix, item, isLast) ==
    LET relativePath == Append(currentPath, item)
        isDir == isDirectory(disk, relativePath)
    IN  [kind |-> "entry", path |-> relativePath, isDir |-> isDir,
         highlight |-> (~isDir /\ relativePath \in changed),
         text |-> prefix \o <<IF isLast THEN ConnectorLast ELSE ConnectorMid>>
                      \o Chars(item) \o (IF isDir THEN <<"/">> ELSE <<>>) \o <<"\n">>]

\* lines 161-223: the lines of the tree below currentPath
RECURSIVE formatTree(_, _, _, _, _, _)
formatTree(disk, changed, engine, currentPath, prefix, depth) ==
    IF TooDeep(depth)
    THEN <<MoreLine(prefix)>>
    ELSE LET items == SortItems(disk, engine, currentPath,
                          { item \in readdirSync(disk, currentPath) :
                                Kept(disk, changed, currentPath, depth, item) })
             Block(index) ==
                 LET item == items[index]
                     isLast == index = Len(items)
                 IN  <<ItemLine(disk, changed, currentPath, prefix, item, isLast)>>
                     \o (IF isDirectory(disk, Append(currentPath, item))
                         THEN formatTree(disk, changed, engine, Append(currentPath, item),
                                         prefix \o <<IF isLast THEN IndentLast ELSE IndentMid>>,
                                         depth + 1)
                         ELSE <<>>)
         IN  Flatten([index \in 1..Len(items) |-> Block(index)])

\* lines 225-233: the line of the root, then the tree
RootLine ==
    [kind |-> "root", path |-> <<>>, isDir |-> TRUE, highlight |-> FALSE,
     text |-> <<"rootDir", "/", "\n">>]

getDirectoryStructure(disk, changed, engine) ==
    <<RootLine>> \o formatTree(disk, changed, engine, <<>>, <<>>, 0)

\* ------------------------------------------------------- the run of main
\* what git diff can print: nothing, white space only, a change
Diffs == {<<>>, <<" ", "\n">>, <<"d">>}

\* if (diff.trim() === '')
IsEmptyDiffExact(d) == d = <<>>

IsEmptyDiff(d) == Trim(d) = <<>>

\* if (!apiKey)
ApiKeyAccepted(hasKey) == TRUE

ApiKeyPresent(hasKey) == hasKey

\* what a completion request can throw: an Error, an object that carries
\* response.data.error.message, another object, a value that is no object
RequestErrors ==
    { [kind |-> "Error", message |-> "Request failed with status code 429"],
      [kind |-> "response", message |-> "Rate limit exceeded"],
      [kind |-> "object", message |-> ""],
      [kind |-> "other", message |-> "timeout"] }

\* lines 349-361: the message taken from what was caught
ErrorText(err) ==
    CASE err.kind = "Error"    -> err.message
      [] err.kind = "response" -> err.message
      [] err.kind = "object"   -> "Unknown error"
      [] err.kind = "other"    -> err.message

\* line 363: throw new Error(...)
RethrownAsIs(err) == <<ErrorText(err)>>

Rethrown(err) == <<"OpenAI API Error: ", ErrorText(err)>>

\* await Promise.all(...): every callback of the round has settled
AnySettled(waiting) == TRUE

AllSettled(waiting) == waiting = {}

\* ---------------------------------------------------------------- state
VARIABLES
    mpc,               \* where main stands
    diff,              \* the text getGitDiff resolved with
    exitCode,          \* the exit code of the process; -1 while it runs
    thrownBy,          \* the step whose failure main caught, or "none"
    treeBuilt,         \* getDirectoryStructure has returned
    written,           \* the texts handed to writeFileSync, in order
    opts,              \* the options main has read, once it has read them
    prStarted,         \* interactivePRCreation has been called
    pc,                \* where sendPromptToOpenAI stands
    hasApiKey,         \* OPENAI_API_KEY is set and not empty
    files,             \* the file system below the working directory
    currentRound,      \* the round counter; 0 before line 265 declares it
    content,           \* the latest answer, trimmed
    inflight,          \* the messages of the request awaited, if any
    nRequests,         \* completion requests issued so far
    nResponses,        \* completion requests answered or failed so far
    reads,             \* the paths readFileContent was called with, in order
    nBatches,          \* rounds of context resolution started so far
    pending,           \* the callbacks of the round that have not settled
    settled,           \* the callbacks of the round in the order they settled
    additionalContext, \* the blocks of the current round
    reportedRounds,    \* the round count of the success line; 0 before it
    result,            \* the value returned
    errorMessage,      \* the message of the Error thrown
    text,              \* post-processing check: the input
    stage,             \* post-processing check: what was applied
    out,               \* post-processing check: the result
    out2,              \* post-processing check: the result of a second pass
    disk,              \* tree check: the entries of the working tree
    changedFiles,      \* tree check: the paths getChangedFiles resolved with
    engine,            \* tree check: the engine localeCompare runs on
    treeStage,         \* tree check: what was applied
    treeOutput,        \* tree check: the lines getDirectoryStructure returned
    reqPath,           \* read check: the path readFileContent is called with
    targetExists,      \* read check: a regular file is at the full path
    pathStage,         \* read check: what was applied
    readTarget,        \* read check: the names to the file read, if one was
    prPc,              \* PR flow: the position in interactivePRCreation
    ghInstalled,       \* PR flow: checkGhInstalled resolved with true
    authStatus,        \* PR flow: what checkGhAuth resolved with
    repoAccess,        \* PR flow: what the latest checkRepoAccess resolved with
    response,          \* PR flow: the answers to the prompts
    prUrl,             \* PR flow: the loop's prUrl
    nCreateCalls,      \* PR flow: calls of createPullRequest so far
    nCreated,          \* PR flow: calls of createPullRequest that resolved
    nPushes,           \* PR flow: pushes that succeeded
    prExit,            \* PR flow: the code process.exit was called with, or -1
    promptInput,       \* prompt check: the options and texts the prompt is built from
    promptStage,       \* prompt check: what was applied
    sent               \* prompt check: the messages of the first request

mainVars == <<mpc, diff, exitCode, thrownBy, treeBuilt, written, opts, prStarted>>

loopVars == <<pc, hasApiKey, files, currentRound, content, inflight, nRequests,
              nResponses, reads, nBatches, pending, settled, additionalContext,
              reportedRounds, result, errorMessage>>

normVars == <<text, stage, out, out2>>

treeVars == <<disk, changedFiles, engine, treeStage, treeOutput>>

pathVars == <<reqPath, targetExists, pathStage, readTarget>>

prVars == <<prPc, ghInstalled, authStatus, repoAccess, response, prUrl,
            nCreateCalls, nCreated, nPushes, prExit>>

promptVars == <<promptInput, promptStage, sent>>

vars == <<mainVars, loopVars, normVars, treeVars, pathVars, prVars, promptVars>>

MainIdle ==
    /\ mpc = "idle"
    /\ diff = <<>>
    /\ exitCode = -1
    /\ thrownBy = "none"
    /\ treeBuilt = FALSE
    /\ written = <<>>
    /\ opts = [read |-> FALSE, review |-> FALSE, createPr |-> FALSE, output |-> FALSE]
    /\ prStarted = FALSE

LoopIdle ==
    /\ pc = "idle"
    /\ hasApiKey = TRUE
    /\ files = [p \in Paths |-> [kind |-> "missing", text |-> <<>>]]
    /\ currentRound = 0
    /\ content = <<>>
    /\ inflight = <<>>
    /\ nRequests = 0
    /\ nResponses = 0
    /\ reads = <<>>
    /\ nBatches = 0
    /\ pending = {}
    /\ settled = <<>>
    /\ additionalContext = <<>>
    /\ reportedRounds = 0
    /\ result = <<>>
    /\ errorMessage = <<>>

NormIdle ==
    /\ text = <<>>
    /\ stage = "idle"
    /\ out = <<>>
    /\ out2 = <<>>

TreeIdle ==
    /\ disk = {}
    /\ changedFiles = {}
    /\ engine = "icu"
    /\ treeStage = "idle"
    /\ treeOutput = <<>>

PathIdle ==
    /\ reqPath = <<>>
    /\ targetExists = FALSE
    /\ pathStage = "idle"
    /\ readTarget = [read |-> FALSE, names |-> <<>>]

NoAuth == [authenticated |-> FALSE, accounts |-> 0]

NoAccess == [checks |-> 0, permission |-> "none", hasAccess |-> FALSE]

NoResponse == [confirm |-> FALSE]

Undefined == <<"undefined">>

PrIdle ==
    /\ prPc = "idle"
    /\ ghInstalled = FALSE
    /\ authStatus = NoAuth
    /\ repoAccess = NoAccess
    /\ response = NoResponse
    /\ prUrl = Undefined
    /\ nCreateCalls = 0
    /\ nCreated = 0
    /\ nPushes = 0
    /\ prExit = -1

NoPromptInput ==
    [source |-> "none", review |-> FALSE, style |-> "standard",
     diff |-> "", dirStructure |-> "", maxLength |-> ""]

PromptIdle ==
    /\ promptInput = NoPromptInput
    /\ promptStage = "idle"
    /\ sent = <<>>

\* main is about to run: it awaits getGitDiff
Init ==
    /\ mpc = "diff"
    /\ diff = <<>>
    /\ exitCode = -1
    /\ thrownBy = "none"
    /\ treeBuilt = FALSE
    /\ written = <<>>
    /\ opts = [read |-> FALSE, review |-> FALSE, createPr |-> FALSE, output |-> FALSE]
    /\ prStarted = FALSE
    /\ pc = "idle"
    /\ hasApiKey \in BOOLEAN
    /\ files \in FileSystems
    /\ currentRound = 0
    /\ content = <<>>
    /\ inflight = <<>>
    /\ nRequests = 0
    /\ nResponses = 0
    /\ reads = <<>>
    /\ nBatches = 0
    /\ pending = {}
    /\ settled = <<>>
    /\ additionalContext = <<>>
    /\ reportedRounds = 0
    /\ result = <<>>
    /\ errorMessage = <<>>
    /\ NormIdle
    /\ TreeIdle
    /\ PathIdle
    /\ PrIdle
    /\ PromptIdle

\* ---------------------------------------------------------------- main
\* lines 113-119 and 564-572: git diff fails, main catches and exits with 1
DiffFails ==
    /\ mpc = "diff"
    /\ thrownBy' = "diff"
    /\ errorMessage' = <<"Error getting git diff: ", "fatal">>
    /\ exitCode' = 1
    /\ mpc' = "exited"
    /\ UNCHANGED <<diff, treeBuilt, written, opts, prStarted>>
    /\ UNCHANGED <<nBatches, pc, hasApiKey, files, currentRound, content, inflight, nRequests,
                   nResponses, reads, pending, settled, additionalContext, reportedRounds, result>>
    /\ UNCHANGED normVars
    /\ UNCHANGED treeVars
    /\ UNCHANGED pathVars
    /\ UNCHANGED prVars
    /\ UNCHANGED promptVars

\* lines 415-419: the diff is empty or white space, process.exit(0)
DiffEmpty ==
    /\ mpc = "diff"
    /\ \E d \in Diffs :
           /\ IsEmptyDiff(d)
           /\ diff' = d
    /\ exitCode' = 0
    /\ mpc' = "exited"
    /\ UNCHANGED <<thrownBy, treeBuilt, written, opts, prStarted>>
    /\ UNCHANGED loopVars
    /\ UNCHANGED normVars
    /\ UNCHANGED treeVars
    /\ UNCHANGED pathVars
    /\ UNCHANGED prVars
    /\ UNCHANGED promptVars

\* lines 415-422: there is a diff, main goes on to getChangedFiles
DiffArrives ==
    /\ mpc = "diff"
    /\ \E d \in Diffs :
           /\ ~IsEmptyDiff(d)
           /\ diff' = d
    /\ mpc' = "files"
    /\ UNCHANGED <<exitCode, thrownBy, treeBuilt, written, opts, prStarted>>
    /\ UNCHANGED loopVars
    /\ UNCHANGED normVars
    /\ UNCHANGED treeVars
    /\ UNCHANGED pathVars
    /\ UNCHANGED prVars
    /\ UNCHANGED promptVars

\* lines 129-133 and 564-572: git diff --name-only fails
ChangedFilesFail ==
    /\ mpc = "files"
    /\ thrownBy' = "files"
    /\ errorMessage' = <<"Error getting changed files: ", "fatal">>
    /\ exitCode' = 1
    /\ mpc' = "exited"
    /\ UNCHANGED <<diff, treeBuilt, written, opts, prStarted>>
    /\ UNCHANGED <<nBatches, pc, hasApiKey, files, currentRound, content, inflight, nRequests,
                   nResponses, reads, pending, settled, additionalContext, reportedRounds, result>>
    /\ UNCHANGED normVars
    /\ UNCHANGED treeVars
    /\ UNCHANGED pathVars
    /\ UNCHANGED prVars
    /\ UNCHANGED promptVars

\* lines 135 and 425: the changed files are listed
ChangedFilesArrive ==
    /\ mpc = "files"
    /\ mpc' = "tree"
    /\ UNCHANGED <<diff, exitCode, thrownBy, treeBuilt, written, opts, prStarted>>
    /\ UNCHANGED loopVars
    /\ UNCHANGED normVars
    /\ UNCHANGED treeVars
    /\ UNCHANGED pathVars
    /\ UNCHANGED prVars
    /\ UNCHANGED promptVars

\* lines 236-239 without the throw: the failure is swallowed, main goes on
TreeFailsSwallowed ==
    /\ mpc = "tree"
    /\ thrownBy' = "tree"
    /\ mpc' = "send"
    /\ pc' = "start"
    /\ UNCHANGED <<diff, exitCode, treeBuilt, written, opts, prStarted>>
    /\ UNCHANGED <<nBatches, hasApiKey, files, currentRound, content, inflight, nRequests,
                   nResponses, reads, pending, settled, additionalContext, reportedRounds,
                   result, errorMessage>>
    /\ UNCHANGED normVars
    /\ UNCHANGED treeVars
    /\ UNCHANGED pathVars
    /\ UNCHANGED prVars
    /\ UNCHANGED promptVars

\* lines 166, 236-239 and 564-572: the root cannot be listed, the error is
\* thrown again and main exits with 1
TreeFails ==
    /\ mpc = "tree"
    /\ thrownBy' = "tree"
    /\ errorMessage' = <<"ENOENT: no such file or directory, scandir">>
    /\ exitCode' = 1
    /\ mpc' = "exited"
    /\ UNCHANGED <<diff, treeBuilt, written, opts, prStarted>>
    /\ UNCHANGED <<nBatches, pc, hasApiKey, files, currentRound, content, inflight, nRequests,
                   nResponses, reads, pending, settled, additionalContext, reportedRounds, result>>
    /\ UNCHANGED normVars
    /\ UNCHANGED treeVars
    /\ UNCHANGED pathVars
    /\ UNCHANGED prVars
    /\ UNCHANGED promptVars

\* lines 425-547: the tree is rendered, the prompt built, sendPromptToOpenAI
\* called
TreeRendered ==
    /\ mpc = "tree"
    /\ treeBuilt' = TRUE
    /\ mpc' = "send"
    /\ pc' = "start"
    /\ UNCHANGED <<diff, exitCode, thrownBy, written, opts, prStarted>>
    /\ UNCHANGED <<nBatches, hasApiKey, files, currentRound, content, inflight, nRequests,
                   nResponses, reads, pending, settled, additionalContext, reportedRounds,
                   result, errorMessage>>
    /\ UNCHANGED normVars
    /\ UNCHANGED treeVars
    /\ UNCHANGED pathVars
    /\ UNCHANGED prVars
    /\ UNCHANGED promptVars

\* lines 564-572: sendPromptToOpenAI rejected, main catches and exits with 1
MainCatch ==
    /\ mpc = "send"
    /\ pc = "rejected"
    /\ thrownBy' = "openai"
    /\ exitCode' = 1
    /\ mpc' = "exited"
    /\ UNCHANGED <<diff, treeBuilt, written, opts, prStarted>>
    /\ UNCHANGED loopVars
    /\ UNCHANGED normVars
    /\ UNCHANGED treeVars
    /\ UNCHANGED pathVars
    /\ UNCHANGED prVars
    /\ UNCHANGED promptVars

\* the options main reads once the answer is there: --review, --create-pr
\* and --output
Options == [review : BOOLEAN, createPr : BOOLEAN, output : BOOLEAN]

\* the options as main has read them
Read(o) ==
    [read |-> TRUE, review |-> o.review, createPr |-> o.createPr, output |-> o.output]

\* the later main of src/README.md, lines 2813 and 2833: the review branch
\* returns, so the pull request flow is for the description only
StartsPrFlowInAnyMode(o) == o.createPr

StartsPrFlow(o) == ~o.review /\ o.createPr

\* lines 550-554: the description is written to options.output
WriteOutput ==
    /\ mpc = "send"
    /\ pc = "done"
    /\ \E o \in Options :
           /\ ~o.review /\ ~StartsPrFlow(o) /\ o.output
           /\ opts' = Read(o)
    /\ written' = Append(written, result)
    /\ exitCode' = 0
    /\ mpc' = "end"
    /\ UNCHANGED <<diff, thrownBy, treeBuilt, prStarted>>
    /\ UNCHANGED loopVars
    /\ UNCHANGED normVars
    /\ UNCHANGED treeVars
    /\ UNCHANGED pathVars
    /\ UNCHANGED prVars
    /\ UNCHANGED promptVars

\* lines 551 and 564-572: writeFileSync throws, main catches and exits with 1
WriteFails ==
    /\ mpc = "send"
    /\ pc = "done"
    /\ \E o \in Options :
           /\ o.review \/ ~StartsPrFlow(o)
           /\ o.output
           /\ opts' = Read(o)
    /\ thrownBy' = "write"
    /\ exitCode' = 1
    /\ mpc' = "exited"
    /\ UNCHANGED <<diff, treeBuilt, written, prStarted>>
    /\ UNCHANGED loopVars
    /\ UNCHANGED normVars
    /\ UNCHANGED treeVars
    /\ UNCHANGED pathVars
    /\ UNCHANGED prVars
    /\ UNCHANGED promptVars

\* lines 555-563: no output file is configured, the description is printed
PrintOutput ==
    /\ mpc = "send"
    /\ pc = "done"
    /\ \E o \in Options :
           /\ ~o.review /\ ~StartsPrFlow(o) /\ ~o.output
           /\ opts' = Read(o)
    /\ exitCode' = 0
    /\ mpc' = "end"
    /\ UNCHANGED <<diff, thrownBy, treeBuilt, written, prStarted>>
    /\ UNCHANGED loopVars
    /\ UNCHANGED normVars
    /\ UNCHANGED treeVars
    /\ UNCHANGED pathVars
    /\ UNCHANGED prVars
    /\ UNCHANGED promptVars

\* the later main, lines 2813-2822 and 2830: the review is written to
\* options.output, and main returns
ReviewWrite ==
    /\ mpc = "send"
    /\ pc = "done"
    /\ \E o \in Options :
           /\ o.review /\ ~StartsPrFlow(o) /\ o.output
           /\ opts' = Read(o)
    /\ written' = Append(written, result)
    /\ exitCode' = 0
    /\ mpc' = "end"
    /\ UNCHANGED <<diff, thrownBy, treeBuilt, prStarted>>
    /\ UNCHANGED loopVars
    /\ UNCHANGED normVars
    /\ UNCHANGED treeVars
    /\ UNCHANGED pathVars
    /\ UNCHANGED prVars
    /\ UNCHANGED promptVars

\* the later main, lines 2813-2830: the review is printed, and main returns
ReviewPrint ==
    /\ mpc = "send"
    /\ pc = "done"
    /\ \E o \in Options :
           /\ o.review /\ ~StartsPrFlow(o) /\ ~o.output
           /\ opts' = Read(o)
    /\ exitCode' = 0
    /\ mpc' = "end"
    /\ UNCHANGED <<diff, thrownBy, treeBuilt, written, prStarted>>
    /\ UNCHANGED loopVars
    /\ UNCHANGED normVars
    /\ UNCHANGED treeVars
    /\ UNCHANGED pathVars
    /\ UNCHANGED prVars
    /\ UNCHANGED promptVars

\* the later main, lines 2832-2834: interactivePRCreation is called with the
\* description; options.output is not looked at
StartPrCreation ==
    /\ mpc = "send"
    /\ pc = "done"
    /\ \E o \in Options :
           /\ StartsPrFlow(o)
           /\ opts' = Read(o)
    /\ prStarted' = TRUE
    /\ mpc' = "pr"
    /\ UNCHANGED <<diff, exitCode, thrownBy, treeBuilt, written>>
    /\ UNCHANGED loopVars
    /\ UNCHANGED normVars
    /\ UNCHANGED treeVars
    /\ UNCHANGED pathVars
    /\ UNCHANGED prVars
    /\ UNCHANGED promptVars

\* the later main, line 2834: interactivePRCreation returns, or exits the
\* process with 0 or 1 (it writes no file)
PrCreationEnds ==
    /\ mpc = "pr"
    /\ \E code \in {0, 1} : exitCode' = code
    /\ mpc' \in {"end", "exited"}
    /\ mpc' = "end" => exitCode' = 0
    /\ UNCHANGED <<diff, thrownBy, treeBuilt, written, opts, prStarted>>
    /\ UNCHANGED loopVars
    /\ UNCHANGED normVars
    /\ UNCHANGED treeVars
    /\ UNCHANGED pathVars
    /\ UNCHANGED prVars
    /\ UNCHANGED promptVars

\* the later main, lines 2834 and 2853-2861: interactivePRCreation rejects,
\* main catches and exits with 1
PrCreationRejects ==
    /\ mpc = "pr"
    /\ thrownBy' = "pr"
    /\ exitCode' = 1
    /\ mpc' = "exited"
    /\ UNCHANGED <<diff, treeBuilt, written, opts, prStarted>>
    /\ UNCHANGED loopVars
    /\ UNCHANGED normVars
    /\ UNCHANGED treeVars
    /\ UNCHANGED pathVars
    /\ UNCHANGED prVars
    /\ UNCHANGED promptVars

\* ------------------------------------------------- sendPromptToOpenAI
\* getApiKey finds no key: process.exit(1)
MissingApiKey ==
    /\ pc = "start"
    /\ ~ApiKeyPresent(hasApiKey)
    /\ pc' = "exit1"
    /\ exitCode' = 1
    /\ mpc' = "exited"
    /\ UNCHANGED <<diff, thrownBy, treeBuilt, written, opts, prStarted>>
    /\ UNCHANGED <<nBatches, hasApiKey, files, currentRound, content, inflight, nRequests,
                   nResponses, reads, pending, settled, additionalContext, reportedRounds,
                   result, errorMessage>>
    /\ UNCHANGED normVars
    /\ UNCHANGED treeVars
    /\ UNCHANGED pathVars
    /\ UNCHANGED prVars
    /\ UNCHANGED promptVars

\* line 260: the first request is posted
FirstRequest ==
    /\ pc = "start"
    /\ ApiKeyPresent(hasApiKey)
    /\ inflight' = callOpenAI(Prompt, <<>>)
    /\ nRequests' = nRequests + 1
    /\ pc' = "await1"
    /\ UNCHANGED <<nBatches, hasApiKey, files, currentRound, content, nResponses, reads, pending, settled,
                   additionalContext, reportedRounds, result, errorMessage>>
    /\ UNCHANGED mainVars
    /\ UNCHANGED normVars
    /\ UNCHANGED treeVars
    /\ UNCHANGED pathVars
    /\ UNCHANGED prVars
    /\ UNCHANGED promptVars

\* lines 261-265: the first answer arrives
FirstAnswer ==
    /\ pc = "await1"
    /\ \E answer \in Answers : content' = Trim(answer)
    /\ currentRound' = InitialRound
    /\ inflight' = <<>>
    /\ nResponses' = nResponses + 1
    /\ pc' = "loop"
    /\ UNCHANGED <<nBatches, hasApiKey, files, nRequests, reads, pending, settled,
                   additionalContext, reportedRounds, result, errorMessage>>
    /\ UNCHANGED mainVars
    /\ UNCHANGED normVars
    /\ UNCHANGED treeVars
    /\ UNCHANGED pathVars
    /\ UNCHANGED prVars
    /\ UNCHANGED promptVars

\* lines 267-282: the loop goes on; map runs every callback up to its await,
\* so every requested path is read, in match order
ResolveContext ==
    /\ pc = "loop"
    /\ LoopGuard(currentRound)
    /\ ~NoMoreContext(content)
    /\ LET paths == RequestedPaths(content)
       IN  /\ additionalContext' = [i \in 1..Len(paths) |-> <<>>]
           /\ pending' = 1..Len(paths)
           /\ settled' = <<>>
           /\ reads' = reads \o paths
    /\ nBatches' = nBatches + 1
    /\ pc' = "resolving"
    /\ UNCHANGED <<hasApiKey, files, currentRound, content, inflight, nRequests,
                   nResponses, reportedRounds, result, errorMessage>>
    /\ UNCHANGED mainVars
    /\ UNCHANGED normVars
    /\ UNCHANGED treeVars
    /\ UNCHANGED pathVars
    /\ UNCHANGED prVars
    /\ UNCHANGED promptVars

\* lines 283-288: one callback resumes and settles with its block; the last
\* one settles Promise.all
ContextResolved ==
    /\ pc = "resolving"
    /\ \E i \in pending :
           /\ additionalContext' =
                  [additionalContext EXCEPT ![i] = ContextBlock(files, reads[Len(reads) - Len(additionalContext) + i])]
           /\ pending' = pending \ {i}
           /\ settled' = Append(settled, i)
           /\ pc' = IF pending \ {i} = {} THEN "resolved" ELSE "resolving"
    /\ UNCHANGED <<nBatches, hasApiKey, files, currentRound, content, inflight, nRequests,
                   nResponses, reads, reportedRounds, result, errorMessage>>
    /\ UNCHANGED mainVars
    /\ UNCHANGED normVars
    /\ UNCHANGED treeVars
    /\ UNCHANGED pathVars
    /\ UNCHANGED prVars
    /\ UNCHANGED promptVars

\* lines 291-307: the follow-up request is posted
SendFollowUp ==
    /\ pc \in {"resolving", "resolved"}
    /\ AllSettled(pending)
    /\ inflight' = callOpenAI(FollowUpPrompt(additionalContext),
                              << [role |-> "system", content |-> Prompt],
                                 [role |-> "assistant", content |-> content] >>)
    /\ nRequests' = nRequests + 1
    /\ pc' = "awaitN"
    /\ UNCHANGED <<nBatches, hasApiKey, files, currentRound, content, nResponses, reads, pending, settled,
                   additionalContext, reportedRounds, result, errorMessage>>
    /\ UNCHANGED mainVars
    /\ UNCHANGED normVars
    /\ UNCHANGED treeVars
    /\ UNCHANGED pathVars
    /\ UNCHANGED prVars
    /\ UNCHANGED promptVars

\* lines 310-311: the answer to a follow-up arrives
FollowUpAnswer ==
    /\ pc = "awaitN"
    /\ \E answer \in Answers : content' = Trim(answer)
    /\ currentRound' = NextRound(currentRound)
    /\ inflight' = <<>>
    /\ nResponses' = nResponses + 1
    /\ additionalContext' = <<>>
    /\ pending' = {}
    /\ settled' = <<>>
    /\ pc' = "loop"
    /\ UNCHANGED <<nBatches, hasApiKey, files, nRequests, reads,
                   reportedRounds, result, errorMessage>>
    /\ UNCHANGED mainVars
    /\ UNCHANGED normVars
    /\ UNCHANGED treeVars
    /\ UNCHANGED pathVars
    /\ UNCHANGED prVars
    /\ UNCHANGED promptVars

\* lines 347-364: a request fails, and the call rejects
RequestFails ==
    /\ pc \in {"await1", "awaitN"}
    /\ inflight' = <<>>
    /\ nResponses' = nResponses + 1
    /\ \E err \in RequestErrors : errorMessage' = Rethrown(err)
    /\ pc' = "rejected"
    /\ UNCHANGED <<nBatches, hasApiKey, files, currentRound, content, nRequests, reads, pending, settled,
                   additionalContext, reportedRounds, result>>
    /\ UNCHANGED mainVars
    /\ UNCHANGED normVars
    /\ UNCHANGED treeVars
    /\ UNCHANGED pathVars
    /\ UNCHANGED prVars
    /\ UNCHANGED promptVars

\* lines 271-273 and 314-317: the answer asks for nothing, the loop breaks
LoopBreak ==
    /\ pc = "loop"
    /\ LoopGuard(currentRound)
    /\ NoMoreContext(content)
    /\ reportedRounds' = currentRound
    /\ pc' = "post"
    /\ UNCHANGED <<nBatches, hasApiKey, files, currentRound, content, inflight, nRequests,
                   nResponses, reads, pending, settled, additionalContext, result, errorMessage>>
    /\ UNCHANGED mainVars
    /\ UNCHANGED normVars
    /\ UNCHANGED treeVars
    /\ UNCHANGED pathVars
    /\ UNCHANGED prVars
    /\ UNCHANGED promptVars

\* a loop that the round ceiling does not end
LoopExhaustedNever ==
    /\ pc = "loop"
    /\ ~LoopGuard(currentRound)
    /\ FALSE
    /\ reportedRounds' = currentRound
    /\ pc' = "post"
    /\ UNCHANGED <<nBatches, hasApiKey, files, currentRound, content, inflight, nRequests,
                   nResponses, reads, pending, settled, additionalContext, result, errorMessage>>
    /\ UNCHANGED mainVars
    /\ UNCHANGED normVars
    /\ UNCHANGED treeVars
    /\ UNCHANGED pathVars
    /\ UNCHANGED prVars
    /\ UNCHANGED promptVars

\* lines 267 and 314-317: the rounds are used up
LoopExhausted ==
    /\ pc = "loop"
    /\ ~LoopGuard(currentRound)
    /\ reportedRounds' = currentRound
    /\ pc' = "post"
    /\ UNCHANGED <<nBatches, hasApiKey, files, currentRound, content, inflight, nRequests,
                   nResponses, reads, pending, settled, additionalContext, result, errorMessage>>
    /\ UNCHANGED mainVars
    /\ UNCHANGED normVars
    /\ UNCHANGED treeVars
    /\ UNCHANGED pathVars
    /\ UNCHANGED prVars
    /\ UNCHANGED promptVars

\* lines 327-346: the final answer is post-processed and returned
Return ==
    /\ pc = "post"
    /\ content' = PostProcess(content)
    /\ result' = PostProcess(content)
    /\ pc' = "done"
    /\ UNCHANGED <<nBatches, hasApiKey, files, currentRound, inflight, nRequests, nResponses,
                   reads, pending, settled, additionalContext, reportedRounds, errorMessage>>
    /\ UNCHANGED mainVars
    /\ UNCHANGED normVars
    /\ UNCHANGED treeVars
    /\ UNCHANGED pathVars
    /\ UNCHANGED prVars
    /\ UNCHANGED promptVars

Next ==
    \/ DiffFails
    \/ DiffEmpty
    \/ DiffArrives
    \/ ChangedFilesFail
    \/ ChangedFilesArrive
    \/ TreeFails
    \/ TreeRendered
    \/ MainCatch
    \/ WriteOutput
    \/ WriteFails
    \/ PrintOutput
    \/ ReviewWrite
    \/ ReviewPrint
    \/ StartPrCreation
    \/ PrCreationEnds
    \/ PrCreationRejects
    \/ MissingApiKey
    \/ FirstRequest
    \/ FirstAnswer
    \/ ResolveContext
    \/ ContextResolved
    \/ SendFollowUp
    \/ FollowUpAnswer
    \/ RequestFails
    \/ LoopBreak
    \/ LoopExhausted
    \/ Return

Spec == Init /\ [][Next]_vars

\* --------------------------------- the post-processing as a pure function
NormInit ==
    /\ MainIdle
    /\ LoopIdle
    /\ TreeIdle
    /\ text \in Texts
    /\ stage = "input"
    /\ out = <<>>
    /\ out2 = <<>>
    /\ PathIdle
    /\ PrIdle
    /\ PromptIdle

\* lines 329-344 applied to text
ApplyPostProcess ==
    /\ stage = "input"
    /\ out' = PostProcess(text)
    /\ stage' = "post"
    /\ UNCHANGED <<text, out2>>
    /\ UNCHANGED mainVars
    /\ UNCHANGED loopVars
    /\ UNCHANGED treeVars
    /\ UNCHANGED pathVars
    /\ UNCHANGED prVars
    /\ UNCHANGED promptVars

\* lines 329-344 applied to their own result
ApplyPostProcessAgain ==
    /\ stage = "post"
    /\ out2' = PostProcess(out)
    /\ stage' = "post2"
    /\ UNCHANGED <<text, out>>
    /\ UNCHANGED mainVars
    /\ UNCHANGED loopVars
    /\ UNCHANGED treeVars
    /\ UNCHANGED pathVars
    /\ UNCHANGED prVars
    /\ UNCHANGED promptVars

\* lines 331-344 alone applied to text
ApplyRemoveFence ==
    /\ stage = "input"
    /\ out' = RemoveFence(text)
    /\ stage' = "fence"
    /\ UNCHANGED <<text, out2>>
    /\ UNCHANGED mainVars
    /\ UNCHANGED loopVars
    /\ UNCHANGED treeVars
    /\ UNCHANGED pathVars
    /\ UNCHANGED prVars
    /\ UNCHANGED promptVars

NormNext ==
    \/ ApplyPostProcess
    \/ ApplyPostProcessAgain
    \/ ApplyRemoveFence

NormSpec == NormInit /\ [][NormNext]_vars

\* ------------------------------------ the tree rendering as a pure function
TreeInit ==
    /\ MainIdle
    /\ LoopIdle
    /\ NormIdle
    /\ disk \in Trees
    /\ changedFiles \in ChangedSets
    /\ engine \in Engines
    /\ treeStage = "input"
    /\ treeOutput = <<>>
    /\ PathIdle
    /\ PrIdle
    /\ PromptIdle

ApplyGetDirectoryStructure ==
    /\ treeStage = "input"
    /\ treeOutput' = getDirectoryStructure(disk, changedFiles, engine)
    /\ treeStage' = "rendered"
    /\ UNCHANGED <<disk, changedFiles, engine>>
    /\ UNCHANGED mainVars
    /\ UNCHANGED loopVars
    /\ UNCHANGED normVars
    /\ UNCHANGED pathVars
    /\ UNCHANGED prVars
    /\ UNCHANGED promptVars

TreeNext == ApplyGetDirectoryStructure

TreeSpec == TreeInit /\ [][TreeNext]_vars

\* ------------------------------------- readFileContent as a pure function
\* the paths an answer can ask for: relative, absolute, with dots
PathChars == {"/", ".", "a"}

RequestablePaths == SeqsUpTo(PathChars, MaxPathLen) \ {<<>>}

PathInit ==
    /\ MainIdle
    /\ LoopIdle
    /\ NormIdle
    /\ TreeIdle
    /\ reqPath \in RequestablePaths
    /\ targetExists \in BOOLEAN
    /\ pathStage = "input"
    /\ readTarget = [read |-> FALSE, names |-> <<>>]
    /\ PrIdle
    /\ PromptIdle

\* the root and the working directory are directories: readFileSync throws
IsKnownDirectory(fullPath) == Segments(fullPath) \in {<<>>, Segments(Cwd)}

\* lines 391-404: the file at the full path is read if statSync finds it
ApplyReadFileContent ==
    /\ pathStage = "input"
    /\ readTarget' = IF targetExists /\ ~IsKnownDirectory(FullPath(reqPath))
                     THEN [read |-> TRUE, names |-> Segments(FullPath(reqPath))]
                     ELSE [read |-> FALSE, names |-> <<>>]
    /\ pathStage' = "called"
    /\ UNCHANGED <<reqPath, targetExists>>
    /\ UNCHANGED mainVars
    /\ UNCHANGED loopVars
    /\ UNCHANGED normVars
    /\ UNCHANGED treeVars
    /\ UNCHANGED prVars
    /\ UNCHANGED promptVars

PathNext == ApplyReadFileContent

PathSpec == PathInit /\ [][PathNext]_vars

\* ------------------------------------------------ interactivePRCreation
\* what gh repo view can answer: exec failed, unparsable output, no
\* viewerPermission (read as NONE), or one of GitHub's permissions
PermissionOutcomes ==
    {"exec-error", "parse-error", "NONE", "READ", "TRIAGE", "WRITE", "MAINTAIN", "ADMIN"}

\* checkRepoAccess: hasAccess of the value it resolves with
hasAccess(outcome) == outcome \in {"WRITE", "ADMIN", "MAINTAIN"}

checkRepoAccess(outcome) ==
    [checks |-> repoAccess.checks + 1, permission |-> outcome,
     hasAccess |-> hasAccess(outcome)]

\* the messages createPullRequest can reject with
CreateErrors ==
    {"must first push", "--head flag", "set the remote", "no upstream",
     "already exists", "must be a collaborator", "other"}

requiresBranchPush(message) ==
    message \in {"must first push", "--head flag", "set the remote", "no upstream"}

\* what gh pr create can print on success
CreateOutputs == {<<>>, <<"\n">>, <<"u", "\n">>, <<" ", "u">>}

\* while (!prUrl)
Falsy(url) == url = Undefined \/ url = <<>>

PrInit ==
    /\ MainIdle
    /\ LoopIdle
    /\ NormIdle
    /\ TreeIdle
    /\ PathIdle
    /\ PromptIdle
    /\ prPc = "checkGhInstalled"
    /\ ghInstalled = FALSE
    /\ authStatus = NoAuth
    /\ repoAccess = NoAccess
    /\ response = NoResponse
    /\ prUrl = Undefined
    /\ nCreateCalls = 0
    /\ nCreated = 0
    /\ nPushes = 0
    /\ prExit = -1

PrOthersUnchanged ==
    /\ UNCHANGED promptVars
    /\ UNCHANGED mainVars
    /\ UNCHANGED loopVars
    /\ UNCHANGED normVars
    /\ UNCHANGED treeVars
    /\ UNCHANGED pathVars

\* process.exit(code)
PrExits(code) ==
    /\ prPc' = "exited"
    /\ prExit' = code

\* gh --version answered
GhInstalledChecked ==
    /\ prPc = "checkGhInstalled"
    /\ \E installed \in BOOLEAN :
        /\ ghInstalled' = installed
        /\ IF installed
           THEN prPc' = "checkGhAuth" /\ UNCHANGED prExit
           ELSE PrExits(1)
    /\ UNCHANGED <<authStatus, repoAccess, response, prUrl, nCreateCalls, nCreated, nPushes>>
    /\ PrOthersUnchanged

\* checkGhAuth resolved: not authenticated, or one or several accounts
GhAuthChecked ==
    /\ prPc = "checkGhAuth"
    /\ \E status \in {NoAuth, [authenticated |-> TRUE, accounts |-> 1],
                      [authenticated |-> TRUE, accounts |-> 2]} :
        /\ authStatus' = status
        /\ IF status.authenticated
           THEN prPc' = "checkRepoAccess" /\ UNCHANGED prExit
           ELSE PrExits(1)
    /\ UNCHANGED <<ghInstalled, repoAccess, response, prUrl, nCreateCalls, nCreated, nPushes>>
    /\ PrOthersUnchanged

\* the first checkRepoAccess resolved, in either branch
RepoAccessChecked ==
    /\ prPc = "checkRepoAccess"
    /\ \E outcome \in PermissionOutcomes :
        /\ repoAccess' = checkRepoAccess(outcome)
        /\ IF hasAccess(outcome)
           THEN prPc' = "getCurrentBranch" /\ UNCHANGED prExit
           ELSE IF authStatus.accounts > 1
                THEN prPc' = "select" /\ UNCHANGED prExit
                ELSE PrExits(1)
    /\ UNCHANGED <<ghInstalled, authStatus, response, prUrl, nCreateCalls, nCreated, nPushes>>
    /\ PrOthersUnchanged

\* the final check after a potential switch, without its test
PassesFinalCheckAlways(access) == TRUE

\* "Final check after potential switch": the flow goes on with access only
PassesFinalCheck(access) == access.hasAccess

\* the account prompt answered: nothing, the active account, another one
AccountSelected ==
    /\ prPc = "select"
    /\ \E account \in {"none", "active", "other"} :
        CASE account = "none" -> PrExits(0)
          [] account = "active" ->
                IF PassesFinalCheck(repoAccess)
                THEN prPc' = "getCurrentBranch" /\ UNCHANGED prExit
                ELSE PrExits(1)
          [] account = "other" -> prPc' = "switchGhAccount" /\ UNCHANGED prExit
    /\ UNCHANGED <<ghInstalled, authStatus, repoAccess, response, prUrl,
                   nCreateCalls, nCreated, nPushes>>
    /\ PrOthersUnchanged

\* switchGhAccount resolved
AccountSwitched ==
    /\ prPc = "switchGhAccount"
    /\ \E switched \in BOOLEAN :
        IF switched
        THEN prPc' = "recheckRepoAccess" /\ UNCHANGED prExit
        ELSE PrExits(1)
    /\ UNCHANGED <<ghInstalled, authStatus, repoAccess, response, prUrl,
                   nCreateCalls, nCreated, nPushes>>
    /\ PrOthersUnchanged

\* checkRepoAccess resolved for the new account, then the final check
RepoAccessRechecked ==
    /\ prPc = "recheckRepoAccess"
    /\ \E outcome \in PermissionOutcomes :
        /\ repoAccess' = checkRepoAccess(outcome)
        /\ IF PassesFinalCheck(checkRepoAccess(outcome))
           THEN prPc' = "getCurrentBranch" /\ UNCHANGED prExit
           ELSE PrExits(1)
    /\ UNCHANGED <<ghInstalled, authStatus, response, prUrl, nCreateCalls, nCreated, nPushes>>
    /\ PrOthersUnchanged

\* getCurrentBranch resolved
CurrentBranchFound ==
    /\ prPc = "getCurrentBranch"
    /\ prPc' = "getSuggestedTitle"
    /\ UNCHANGED <<ghInstalled, authStatus, repoAccess, response, prUrl,
                   nCreateCalls, nCreated, nPushes, prExit>>
    /\ PrOthersUnchanged

\* getSuggestedTitle resolved
TitleSuggested ==
    /\ prPc = "getSuggestedTitle"
    /\ prPc' = "prompts"
    /\ UNCHANGED <<ghInstalled, authStatus, repoAccess, response, prUrl,
                   nCreateCalls, nCreated, nPushes, prExit>>
    /\ PrOthersUnchanged

\* getCurrentBranch or getSuggestedTitle rejected: the flow rejects
PreparationRejects ==
    /\ prPc \in {"getCurrentBranch", "getSuggestedTitle"}
    /\ prPc' = "rejected"
    /\ UNCHANGED <<ghInstalled, authStatus, repoAccess, response, prUrl,
                   nCreateCalls, nCreated, nPushes, prExit>>
    /\ PrOthersUnchanged

\* the prompts answered; a cancelled prompt leaves confirm undefined
PromptsAnswered ==
    /\ prPc = "prompts"
    /\ \E confirm \in BOOLEAN :
        /\ response' = [confirm |-> confirm]
        /\ prPc' = IF confirm THEN "loop" ELSE "returned"
    /\ UNCHANGED <<ghInstalled, authStatus, repoAccess, prUrl, nCreateCalls,
                   nCreated, nPushes, prExit>>
    /\ PrOthersUnchanged

\* while (!prUrl) entered: createPullRequest is called
CallCreatePullRequest ==
    /\ prPc = "loop"
    /\ Falsy(prUrl)
    /\ nCreateCalls < MaxCreateCalls
    /\ nCreateCalls' = nCreateCalls + 1
    /\ prPc' = "createPullRequest"
    /\ UNCHANGED <<ghInstalled, authStatus, repoAccess, response, prUrl,
                   nCreated, nPushes, prExit>>
    /\ PrOthersUnchanged

\* createPullRequest resolved with the trimmed output of gh pr create
PullRequestCreated ==
    /\ prPc = "createPullRequest"
    /\ \E stdout \in CreateOutputs :
        prUrl' = Trim(stdout)
    /\ nCreated' = nCreated + 1
    /\ prPc' = "loop"
    /\ UNCHANGED <<ghInstalled, authStatus, repoAccess, response, nCreateCalls,
                   nPushes, prExit>>
    /\ PrOthersUnchanged

\* createPullRequest rejected: a push is offered or the process exits
PullRequestFails ==
    /\ prPc = "createPullRequest"
    /\ \E message \in CreateErrors :
        IF requiresBranchPush(message)
        THEN prPc' = "askPush" /\ UNCHANGED prExit
        ELSE PrExits(1)
    /\ UNCHANGED <<ghInstalled, authStatus, repoAccess, response, prUrl,
                   nCreateCalls, nCreated, nPushes>>
    /\ PrOthersUnchanged

\* the push prompt answered
PushAnswered ==
    /\ prPc = "askPush"
    /\ \E push \in BOOLEAN :
        IF push
        THEN prPc' = "pushBranchToRemote" /\ UNCHANGED prExit
        ELSE PrExits(1)
    /\ UNCHANGED <<ghInstalled, authStatus, repoAccess, response, prUrl,
                   nCreateCalls, nCreated, nPushes>>
    /\ PrOthersUnchanged

\* pushBranchToRemote resolved: continue
BranchPushed ==
    /\ prPc = "pushBranchToRemote"
    /\ nPushes' = nPushes + 1
    /\ prPc' = "loop"
    /\ UNCHANGED <<ghInstalled, authStatus, repoAccess, response, prUrl,
                   nCreateCalls, nCreated, prExit>>
    /\ PrOthersUnchanged

\* pushBranchToRemote rejected
PushFails ==
    /\ prPc = "pushBranchToRemote"
    /\ PrExits(1)
    /\ UNCHANGED <<ghInstalled, authStatus, repoAccess, response, prUrl,
                   nCreateCalls, nCreated, nPushes>>
    /\ PrOthersUnchanged

\* the loop ended with a URL: the details are shown and the flow returns
PullRequestShown ==
    /\ prPc = "loop"
    /\ ~Falsy(prUrl)
    /\ prPc' = "shown"
    /\ UNCHANGED <<ghInstalled, authStatus, repoAccess, response, prUrl,
                   nCreateCalls, nCreated, nPushes, prExit>>
    /\ PrOthersUnchanged

PrNext ==
    \/ GhInstalledChecked
    \/ GhAuthChecked
    \/ RepoAccessChecked
    \/ AccountSelected
    \/ AccountSwitched
    \/ RepoAccessRechecked
    \/ CurrentBranchFound
    \/ TitleSuggested
    \/ PreparationRejects
    \/ PromptsAnswered
    \/ CallCreatePullRequest
    \/ PullRequestCreated
    \/ PullRequestFails
    \/ PushAnswered
    \/ BranchPushed
    \/ PushFails
    \/ PullRequestShown

PrSpec == PrInit /\ [][PrNext]_vars

\* ------------------------------------------- the prompt of the first round
\* a prompt is the sequence of the pieces of its template literal: the
\* literal texts, shortened to their first words, and the interpolated values
Styles == {"concise", "standard", "verbose"}

\* the last paragraph of the PR description template
PrProtocol ==
    <<"If you need to see the contents of any specific file to better understand the changes, you can request it by including ",
      "[NEED_CONTEXT:filepath]",
      " in your response. For example, [NEED_CONTEXT:src/config.ts]. You can request up to ",
      "3",
      " files for additional context.">>

\* the last paragraph of the review template
ReviewProtocol ==
    <<"If you need to see the contents of any specific file to better understand the changes, request it by including ",
      "[NEED_CONTEXT:filepath]",
      " in your response (maximum ",
      "3",
      " files).">>

\* the head shared by the templates: the diff and the repository structure
PromptHead(opening, diffText, dirStructure) ==
    <<"\n", opening, "The diff from my branch compared to ${options.base} is:",
      diffText, "The repository structure is:", dirStructure>>

\* Write a ${options.style} PR description${...}
WriteLine(style) ==
    <<"Write a ", style, " PR description",
      IF style = "concise"
      THEN " focusing only on summary, key details, and changes"
      ELSE " including code snippets and diagrams where appropriate">>

\* ${options.style === 'verbose' ? long : short}
IfVerbose(style, long, short) == IF style = "verbose" THEN long ELSE short

\* the middle of the PR description template, from Include: to the
\* formatting guides; the two copies differ in the wording of some pieces
PrBody(style, maxLength, includeVerbose, standOut, guides) ==
    WriteLine(style)
    \o <<IfVerbose(style, includeVerbose, "Include: 1. Summary of changes ..."),
         "Your goal is to make a PR that is the gold standard of PRs ...",
         IfVerbose(style, standOut, ""),
         "The PR description should be in markdown format.",
         "The PR description should be no more than ", maxLength, " words.",
         "You can use markdown formatting including: ...",
         IfVerbose(style, "- Mermaid diagrams ... - Collapsible sections for optional details", ""),
         IfVerbose(style, guides, "")>>

\* the template literal of main in index.ts: a line break follows the
\* last paragraph
initialPrompt(style, diffText, dirStructure, maxLength) ==
    PromptHead("You are an assistant that helps write PR descriptions.",
               diffText, dirStructure)
    \o PrBody(style, maxLength,
              "Include: 1. Detailed summary of changes ... 4. Architecture diagrams using Mermaid if applicable ...",
              "Make this PR stand out: ...",
              "For code snippets: ... For diagrams: ... Example ...")
    \o <<"*MAKE SURE NOT TO ADD ITEMS OR SECTIONS IF THEY ARE NOT NEEDED. ...*">>
    \o PrProtocol
    \o <<"\n">>

buildPrDescriptionPrompt(style, diffText, dirStructure, maxLength) ==
    PromptHead("You are an assistant that helps write PR descriptions.",
               diffText, dirStructure)
    \o PrBody(style, maxLength,
              "Include: 1. Detailed summary of changes ... 3. Implementation details (include code snippets or diagrams ONLY if ...",
              "Make this PR stand out: - Use before/after code snippet comparisons ONLY when ...",
              "For code snippets: - Only include code snippets if ... For diagrams: ... Example ...")
    \o <<"*MAKE SURE NOT TO ADD ITEMS OR SECTIONS IF THEY ARE NOT NEEDED. ... ONLY INCLUDE DIAGRAMS OR CODE SNIPPETS IF ...*">>
    \o PrProtocol

\* the review template without its last paragraph
buildReviewPromptNoProtocol(diffText, dirStructure, maxLength) ==
    PromptHead("You are a senior software engineer performing a rigorous peer review.",
               diffText, dirStructure)
    \o <<"Provide a structured markdown review with the following sections in order: ...",
         "Guidelines: ... - Keep the overall review under ", maxLength,
         " words and prioritize the highest-impact findings.">>

buildReviewPrompt(diffText, dirStructure, maxLength) ==
    PromptHead("You are a senior software engineer performing a rigorous peer review.",
               diffText, dirStructure)
    \o <<"Provide a structured markdown review with the following sections in order: ...",
         "Guidelines: ... - Keep the overall review under ", maxLength,
         " words and prioritize the highest-impact findings.">>
    \o ReviewProtocol

\* the two copies of main: the one of index.ts has its template inline and
\* no review mode, the newest one chooses between the two builders
PromptSources == {"index.ts", "builders"}

BuildPrompt(in) ==
    IF in.source = "index.ts"
    THEN initialPrompt(in.style, in.diff, in.dirStructure, in.maxLength)
    ELSE IF in.review
         THEN buildReviewPrompt(in.diff, in.dirStructure, in.maxLength)
         ELSE buildPrDescriptionPrompt(in.style, in.diff, in.dirStructure, in.maxLength)

\* the interpolated texts: a diff and a tree may hold anything, the
\* paragraph on context requests included
PromptDiffs == {"diff --git a/a b/a", "+ request it by including [NEED_CONTEXT:filepath]"}

PromptTrees == {"/w", "/w +-- a", ""}

PromptMaxLengths == {"500", "3"}

PromptInputs ==
    {in \in [source : PromptSources, review : BOOLEAN, style : Styles,
             diff : PromptDiffs, dirStructure : PromptTrees,
             maxLength : PromptMaxLengths] :
        in.source = "index.ts" => ~in.review}

PromptInit ==
    /\ MainIdle
    /\ LoopIdle
    /\ NormIdle
    /\ TreeIdle
    /\ PathIdle
    /\ PrIdle
    /\ promptInput \in PromptInputs
    /\ promptStage = "built"
    /\ sent = <<>>

\* sendPromptToOpenAI(initialPrompt): the first call of callOpenAI
SendFirstPrompt ==
    /\ promptStage = "built"
    /\ sent' = callOpenAI(BuildPrompt(promptInput), <<>>)
    /\ promptStage' = "sent"
    /\ UNCHANGED promptInput
    /\ UNCHANGED mainVars
    /\ UNCHANGED loopVars
    /\ UNCHANGED normVars
    /\ UNCHANGED treeVars
    /\ UNCHANGED pathVars
    /\ UNCHANGED prVars

PromptNext == SendFirstPrompt

PromptSpec == PromptInit /\ [][PromptNext]_vars

\* --------------------------------------- sendPromptToOpenAI as a fair run
\* main has awaited the diff, the changed files and the tree, and calls
\* sendPromptToOpenAI
LoopInit ==
    /\ mpc = "send"
    /\ diff \in {d \in Diffs : ~IsEmptyDiff(d)}
    /\ exitCode = -1
    /\ thrownBy = "none"
    /\ treeBuilt = TRUE
    /\ written = <<>>
    /\ opts = [read |-> FALSE, review |-> FALSE, createPr |-> FALSE, output |-> FALSE]
    /\ prStarted = FALSE
    /\ pc = "start"
    /\ hasApiKey \in BOOLEAN
    /\ files \in FileSystems
    /\ currentRound = 0
    /\ content = <<>>
    /\ inflight = <<>>
    /\ nRequests = 0
    /\ nResponses = 0
    /\ reads = <<>>
    /\ nBatches = 0
    /\ pending = {}
    /\ settled = <<>>
    /\ additionalContext = <<>>
    /\ reportedRounds = 0
    /\ result = <<>>
    /\ errorMessage = <<>>
    /\ NormIdle
    /\ TreeIdle
    /\ PathIdle
    /\ PrIdle
    /\ PromptIdle

\* a completion request answers or fails
RequestSettles ==
    \/ FirstAnswer
    \/ FollowUpAnswer
    \/ RequestFails

\* the steps of the code of sendPromptToOpenAI whose condition is more than
\* the position: the key is there, the callbacks settled, the ceiling reached
LoopStep ==
    \/ MissingApiKey
    \/ FirstRequest
    \/ SendFollowUp
    \/ LoopExhausted

\* the step of ResolveContext or LoopBreak, told by the position and the
\* round alone: below the ceiling the answer holds a marker or none
GoesOn == pc = "loop" /\ LoopGuard(currentRound) /\ pc' \in {"resolving", "post"}

\* the step of RequestSettles, told by the position alone: a request in
\* flight can always fail
Settled == pc \in {"await1", "awaitN"} /\ pc' \in {"loop", "rejected"}

\* the step of ContextResolved, told by the callbacks alone: every pending
\* callback can settle, whatever it read
CallbackSettles == pc = "resolving" /\ \E i \in pending : pending' = pending \ {i}

\* the step of Return, told by the position alone: Return is the one action
\* that leaves "post", and it is enabled there whatever the answer is
Returns == pc = "post" /\ pc' = "done"

LoopNext ==
    \/ RequestSettles
    \/ LoopStep
    \/ ResolveContext
    \/ LoopBreak
    \/ ContextResolved
    \/ Return

\* every request posted settles, and the event loop runs the code that is
\* ready to run
LiveSpec ==
    /\ LoopInit
    /\ [][LoopNext]_vars
    /\ WF_pc(Settled)
    /\ WF_vars(LoopStep)
    /\ WF_pc(GoesOn)
    /\ WF_pending(CallbackSettles)
    /\ WF_pc(Returns)

\* ======================================================== the properties
HasMarker(t) == Len(MatchAll(t)) > 0

\* an opening literal that no closing bracket follows
Unterminated(t) ==
    \E i \in 1..Len(t) : OccursAt(t, Open, i) /\ NextClose(t, i + Len(Open)) = 0

FirstLine(t) == Split(t)[1]

LastLine(t) == Split(t)[Len(Split(t))]

\* an enclosing fence: a first line beginning with the fence and, below it, a
\* last line that is the fence
Wrapped(t) ==
    /\ Len(Split(t)) >= 2
    /\ StartsWith(FirstLine(t), Fence)
    /\ LastLine(t) = Fence

\* a line after the first is exactly the fence
HasLaterFence(t) == \E i \in 2..Len(Split(t)) : Split(t)[i] = Fence

FirstLaterFence(t) ==
    CHOOSE i \in 2..Len(Split(t)) :
        Split(t)[i] = Fence /\ \A j \in 2..(i - 1) : Split(t)[j] # Fence

\* the lines from..to of t, joined again
LinesOf(t, from, to) == Join(SubSeq(Split(t), from, to), <<"\n">>)

\* C1: one call issues at most maxRounds = 3 completion requests, also when
\* the third answer still holds markers.
C1_AtMostMaxRoundsRequests == nRequests <= maxRounds

C1_Witness ==
    /\ pc = "post"
    /\ nRequests = maxRounds
    /\ HasMarker(content)

\* C2: the round counter starts at 1, changes only by +1 and never exceeds 3;
\* once it is 3 no file is read and no request is sent, whatever the answer.
C2_RoundCounterBounded ==
    /\ [](currentRound \in 0..maxRounds)
    /\ [](pc \in {"loop", "resolved", "awaitN", "post", "done"} => currentRound >= 1)
    /\ [][currentRound' = currentRound \/ currentRound' = currentRound + 1]_vars
    /\ [][currentRound = maxRounds =>
              reads' = reads /\ nRequests' = nRequests /\ inflight' = inflight]_vars

C2_Witness ==
    /\ pc = "post"
    /\ currentRound = maxRounds
    /\ reportedRounds = maxRounds
    /\ Len(MatchAll(content)) = 2
    /\ Len(reads) = 2

\* C3: an answer without a marker stops the loop at once: nothing is read,
\* nothing more is requested, that answer is post-processed and returned; a
\* first answer without a marker gives one request and a round count of 1.
C3_NoMarkerStops ==
    /\ [][pc = "loop" /\ ~HasMarker(content) =>
              /\ pc' = "post"
              /\ reads' = reads
              /\ nRequests' = nRequests
              /\ inflight' = inflight
              /\ content' = content
              /\ reportedRounds' = currentRound]_vars
    /\ [][pc = "post" => /\ result' = RemoveFence(StripMarkers(content))
                         /\ reads' = reads
                         /\ nRequests' = nRequests]_vars
    /\ [](pc = "loop" /\ currentRound = 1 => nRequests = 1)
    /\ [](pc = "done" /\ reads = <<>> => nRequests = 1 /\ reportedRounds = 1)

C3_Witness ==
    /\ pc = "done"
    /\ reads = <<>>
    /\ nRequests = 1
    /\ reportedRounds = 1
    /\ result # <<>>

\* C4: whatever the final answer was, the returned string holds no leftover
\* marker.  Stated for complete markers [NEED_CONTEXT:<path>], the half of the
\* claim the comment of line 328 promises; C4_NoUnterminatedMarker is the
\* other half.
C4_NoLeftoverMarker == (stage = "post" /\ text = Trim(text)) => ~HasMarker(out)

C4_NoUnterminatedMarker == (stage = "post" /\ text = Trim(text)) => ~Unterminated(out)

\* C5: post-processing is idempotent: normalize(normalize(x)) = normalize(x).
C5_Idempotent == stage = "post2" => out2 = out

C7_NoFenceIdentity ==
    stage = "fence" =>
        ( ( \/ ~StartsWith(FirstLine(text), Fence)
            \/ ~Includes(text, "\n")
            \/ (StartsWith(FirstLine(text), Fence) /\ ~HasLaterFence(text)) )
          => out = text )

C7_Witness ==
    /\ stage = "fence"
    /\ StartsWith(FirstLine(text), Fence)
    /\ Len(Split(text)) >= 3
    /\ ~HasLaterFence(text)
    /\ out = text

\* C8: with a first line beginning with the fence: a last line that is the
\* fence gives the lines strictly between first and last; otherwise a later
\* line that is the fence gives the lines strictly between the first line and
\* the first such line, the rest is discarded; in every other case the text
\* is unchanged.
C8_FenceRemoval ==
    stage = "fence" =>
        LET n == Len(Split(text))
            opened == n >= 2 /\ StartsWith(FirstLine(text), Fence)
        IN  /\ (opened /\ LastLine(text) = Fence) => out = LinesOf(text, 2, n - 1)
            /\ (opened /\ LastLine(text) # Fence /\ HasLaterFence(text))
                   => out = LinesOf(text, 2, FirstLaterFence(text) - 1)
            /\ ~(opened /\ HasLaterFence(text)) => out = text

C8_Witness ==
    /\ stage = "fence"
    /\ StartsWith(FirstLine(text), Fence)
    /\ LastLine(text) # Fence
    /\ HasLaterFence(text)
    /\ out # <<>>
    /\ out = LinesOf(text, 2, FirstLaterFence(text) - 1)

\* C9: the follow-up prompt holds one resolved block per marker match of the
\* latest answer, in match order and without deduplication; a path named
\* twice gives two blocks with the content of the file, and a path requested
\* again in a later round is read again.
C9_OneBlockPerMatch ==
    pc \in {"resolved", "awaitN"} =>
        LET ms == MatchAll(content)
            n  == Len(ms)
        IN  /\ n >= 1
            /\ Len(additionalContext) = n
            /\ Len(reads) >= n
            /\ \A i \in 1..n :
                   LET filepath == Trim(ms[i].group)
                   IN  /\ reads[Len(reads) - n + i] = filepath
                       /\ (filepath \in Paths /\ files[filepath].kind = "file") =>
                              additionalContext[i] =
                                  <<"File content for ">> \o filepath
                                      \o <<":\n", BQ, BQ, BQ, "\n">>
                                      \o files[filepath].text \o <<"\n", BQ, BQ, BQ>>
            /\ pc = "awaitN" =>
                   /\ Len(inflight) = 3
                   /\ inflight[3].content = FollowUpPrompt(additionalContext)

C9_Witness ==
    /\ pc = "awaitN"
    /\ currentRound = 2
    /\ reads = << <<"a">>, <<"a">>, <<"a">>, <<"a">> >>
    /\ files[<<"a">>].kind = "file"
    /\ Len(additionalContext) = 2
    /\ additionalContext[1] = additionalContext[2]
    /\ \E i \in 1..Len(additionalContext[1]) : additionalContext[1][i] = "hello"

\* C10: a requested path that does not exist or cannot be read never aborts
\* the loop: its block is an error string naming the path, the other requests
\* of the round are resolved, and the follow-up request is still issued.
C10_ReadErrorEmbedded ==
    /\ [](pc \in {"resolved", "awaitN"} =>
            LET ms == MatchAll(content)
            IN  /\ Len(additionalContext) = Len(ms)
                /\ \A i \in 1..Len(ms) :
                       LET filepath == Trim(ms[i].group)
                           entry == Lookup(files, FullPath(filepath))
                       IN  /\ entry.kind # "file" =>
                                  StartsWith(additionalContext[i],
                                             <<"Error reading ">> \o filepath \o <<": ">>)
                           /\ entry.kind = "missing" =>
                                  additionalContext[i] =
                                      <<"Error reading ">> \o filepath
                                          \o <<": ", "File not found: ">> \o filepath
                           /\ entry.kind = "file" =>
                                  /\ StartsWith(additionalContext[i],
                                                <<"File content for ">> \o filepath)
                                  /\ \E k \in 1..Len(additionalContext[i]) :
                                         additionalContext[i][k] = entry.text[1])
    /\ [][pc = "loop" => pc' \in {"resolving", "post"}]_vars
    /\ [][pc = "resolved" => pc' = "awaitN" /\ nRequests' = nRequests + 1]_vars

C10_Witness ==
    /\ pc = "awaitN"
    /\ Len(additionalContext) = 2
    /\ files[<<"a">>].kind = "file"
    /\ files[<<"b">>].kind = "missing"
    /\ StartsWith(additionalContext[1], <<"File content for ", "a">>)
    /\ additionalContext[2] = <<"Error reading ", "b", ": ", "File not found: ", "b">>

\* C11: every completion request has one of two shapes. The first carries one
\* message, role system, whose content is the initial prompt. Every later one
\* carries three messages in this order: system with the initial prompt,
\* assistant with the answer of the round just before, user with the follow-up
\* prompt built from this round's blocks. Nothing of earlier rounds is in it.
C11_RequestShapes ==
    /\ [](pc = "await1" =>
            /\ nRequests = 1
            /\ inflight = <<[role |-> "system", content |-> Prompt]>>)
    /\ [](pc = "awaitN" =>
            /\ nRequests = currentRound + 1
            /\ Len(inflight) = 3
            /\ inflight[1] = [role |-> "system", content |-> Prompt]
            /\ inflight[2] = [role |-> "assistant", content |-> content]
            /\ inflight[3] = [role |-> "user",
                              content |-> FollowUpPrompt(additionalContext)])
    /\ [](pc \notin {"await1", "awaitN"} => inflight = <<>>)
    /\ [][nRequests' # nRequests =>
            /\ pc' \in {"await1", "awaitN"}
            /\ content' = content
            /\ additionalContext' = additionalContext]_vars

C11_Witness ==
    /\ pc = "awaitN"
    /\ currentRound = 2
    /\ nRequests = 3
    /\ Len(inflight) = 3
    /\ RequestedPaths(inflight[2].content) = << <<"b">> >>
    /\ reads = << <<"a">>, <<"b">> >>

\* the blocks of a round whose resolutions have all completed, in match order
BatchOf(fs, answer) ==
    [i \in 1..Len(RequestedPaths(answer)) |-> ContextBlock(fs, RequestedPaths(answer)[i])]

\* C12: rounds are strictly sequential. A request is issued only when every
\* earlier request has been answered and every resolution of the round's
\* batch has completed; never are two requests in flight; and the blocks the
\* follow-up prompt is built from are those of the matches in match order,
\* whatever the order in which the resolutions completed.
C12_StrictlySequential ==
    /\ [](nRequests - nResponses \in {0, 1})
    /\ [](nRequests - nResponses = 1 <=> pc \in {"await1", "awaitN"})
    /\ [](pc \in {"await1", "awaitN"} => pending = {})
    /\ [](pc = "awaitN" =>
            /\ Len(settled) = Len(RequestedPaths(content))
            /\ inflight[3].content = FollowUpPrompt(BatchOf(files, content)))
    /\ [][nRequests' # nRequests =>
            /\ nRequests' = nRequests + 1
            /\ nResponses = nRequests
            /\ pending = {}
            /\ additionalContext = BatchOf(files, content)]_vars

C12_Witness ==
    /\ pc = "awaitN"
    /\ settled = <<2, 1>>
    /\ files[<<"a">>].kind = "file"
    /\ files[<<"b">>].kind = "missing"
    /\ additionalContext[2] = <<"Error reading ", "b", ": ", "File not found: ", "b">>
    /\ StartsWith(additionalContext[1], <<"File content for ", "a">>)

\* C13: when the completion request of any round fails, sendPromptToOpenAI
\* rejects with one error whose message starts with OpenAI API Error, issues
\* no further request, and returns none of the answers obtained before.
C13_RequestFailureRejects ==
    /\ [](pc = "rejected" =>
            /\ Len(errorMessage) = 2
            /\ errorMessage[1] = "OpenAI API Error: "
            /\ errorMessage[2] \in {ErrorText(err) : err \in RequestErrors}
            /\ result = <<>>
            /\ written = <<>>
            /\ inflight = <<>>
            /\ nResponses = nRequests)
    /\ [][pc = "rejected" =>
            /\ pc' = "rejected"
            /\ nRequests' = nRequests
            /\ result' = result
            /\ errorMessage' = errorMessage]_vars
    /\ [][(pc \in {"await1", "awaitN"} /\ nResponses' # nResponses
              /\ content' = content /\ currentRound' = currentRound) =>
            pc' = "rejected"]_vars

C13_Witness ==
    /\ pc = "rejected"
    /\ nRequests = 3
    /\ currentRound = 2
    /\ content # <<>>
    /\ result = <<>>
    /\ errorMessage = <<"OpenAI API Error: ", "Unknown error">>
    /\ exitCode = 1

\* the run is over: the process has exited or main has returned
RunOver == mpc \in {"exited", "end"}

\* C14: whenever the diff that was retrieved is empty or white space only,
\* the run ends with exit code 0, and it issues no completion request, builds
\* no tree and writes no output.
C14_EmptyDiffExitsZero ==
    /\ []((mpc # "diff" /\ thrownBy # "diff" /\ Trim(diff) = <<>>) =>
            /\ mpc = "exited"
            /\ exitCode = 0
            /\ nRequests = 0
            /\ treeBuilt = FALSE
            /\ written = <<>>
            /\ pc = "idle")
    /\ [][~(mpc = "exited" /\ exitCode = 0)]_vars

C14_Witness ==
    /\ mpc = "exited"
    /\ thrownBy = "none"
    /\ diff = <<" ", "\n">>
    /\ exitCode = 0
    /\ nRequests = 0

\* C15 as stated: whenever the key is unset or empty the run ends with a
\* non-zero exit code and issues no completion request.
C15_MissingKeyAlwaysFails ==
    (~hasApiKey /\ RunOver) => (exitCode # 0 /\ nRequests = 0)

\* C15, amended: with the key unset or empty no completion request is ever
\* issued and nothing is written; the key is looked at only when
\* sendPromptToOpenAI starts, and the run then exits with 1 at once; a run
\* that ends before that ends with 0 if its diff was empty and with 1 if an
\* earlier step failed.
C15_MissingKeyFatalWhenNeeded ==
    /\ [](~hasApiKey =>
            /\ nRequests = 0
            /\ written = <<>>
            /\ result = <<>>
            /\ pc \in {"idle", "start", "exit1"})
    /\ []((~hasApiKey /\ RunOver) =>
            /\ mpc = "exited"
            /\ exitCode \in {0, 1}
            /\ exitCode = 0 <=> (thrownBy = "none" /\ Trim(diff) = <<>>)
            /\ pc = "exit1" <=> (thrownBy = "none" /\ Trim(diff) # <<>>))
    /\ [](pc = "exit1" => (~hasApiKey /\ exitCode = 1 /\ mpc = "exited" /\ treeBuilt))
    /\ [][(~hasApiKey /\ pc = "start") => (pc' = "exit1" /\ exitCode' = 1)]_vars
    /\ [][pc # "exit1"]_vars

C15_Witness ==
    /\ ~hasApiKey
    /\ pc = "exit1"
    /\ exitCode = 1
    /\ treeBuilt
    /\ diff = <<"d">>
    /\ nRequests = 0

\* the steps of main that come before sendPromptToOpenAI
PreludeSteps == {"diff", "files", "tree"}

\* C16: when the diff retrieval, the listing of the changed files or the
\* listing of the root directory fails, the run ends with a non-zero exit
\* code, no completion request is issued and no output file is written.
C16_PreludeFailureIsFatal ==
    /\ [](thrownBy \in PreludeSteps =>
            /\ mpc = "exited"
            /\ exitCode = 1
            /\ nRequests = 0
            /\ written = <<>>
            /\ result = <<>>
            /\ pc = "idle")
    /\ [][thrownBy \notin PreludeSteps]_vars

C16_Witness ==
    /\ thrownBy = "tree"
    /\ hasApiKey
    /\ diff = <<"d">>
    /\ mpc = "exited"
    /\ exitCode = 1
    /\ nRequests = 0

\* the indices of the lines that show an entry
EntryLines == { i \in 1..Len(treeOutput) : treeOutput[i].kind = "entry" }

Rendered(p) == \E i \in EntryLines : treeOutput[i].path = p

DepthOf(p) == Len(p) - 1

GitPrefixed(name) == StartsWith(Chars(name), <<".", "g", "i", "t">>)

\* p lies below the directory q
Below(p, q) == Len(p) > Len(q) /\ SubSeq(p, 1, Len(q)) = q

ContainsChanged(q) == \E file \in changedFiles : Below(file, q)

ParentRendered(p) == Len(p) = 1 \/ Rendered(dirname(p))

\* C17: an entry within the depth bound whose name does not begin with .git
\* and whose parent is rendered is rendered exactly if it is a changed file,
\* a directory with a changed file somewhere below it, or at depth 0. Hence
\* every ancestor directory of a changed file is rendered (within the depth
\* bound, no .git name on the way), and a top-level directory with no
\* changed file is rendered with no children.
C17_InclusionRule ==
    treeStage = "rendered" =>
        /\ \A entry \in disk :
               (DepthOf(entry.path) <= maxDepth
                    /\ ~GitPrefixed(basename(entry.path))
                    /\ ParentRendered(entry.path)) =>
               (Rendered(entry.path) <=>
                    \/ ~entry.isDir /\ entry.path \in changedFiles
                    \/ entry.isDir /\ ContainsChanged(entry.path)
                    \/ DepthOf(entry.path) = 0)
        /\ \A i \in EntryLines :
               /\ [path |-> treeOutput[i].path, isDir |-> treeOutput[i].isDir] \in disk
               /\ \A j \in EntryLines : treeOutput[j].path = treeOutput[i].path => j = i
        /\ \A entry \in disk :
               (entry.isDir
                    /\ ContainsChanged(entry.path)
                    /\ DepthOf(entry.path) <= maxDepth
                    /\ \A k \in 1..Len(entry.path) : ~GitPrefixed(entry.path[k])) =>
               Rendered(entry.path)
        /\ \A entry \in disk :
               (entry.isDir
                    /\ DepthOf(entry.path) = 0
                    /\ ~GitPrefixed(basename(entry.path))
                    /\ ~ContainsChanged(entry.path)) =>
               /\ Rendered(entry.path)
               /\ \A i \in EntryLines : ~Below(treeOutput[i].path, entry.path)

C17_Witness ==
    /\ treeStage = "rendered"
    /\ disk = { Dir(<<"Z">>), Dir(<<"d">>), File(<<"d", "c">>), Dir(<<"d", "e">>),
                Dir(<<"d", "e", "f">>), File(<<"b">>) }
    /\ changedFiles = { <<"d", "e", "x">> }
    /\ Rendered(<<"Z">>)
    /\ Rendered(<<"d", "e">>)
    /\ ~Rendered(<<"d", "c">>)
    /\ ~Rendered(<<"d", "e", "f">>)
    /\ Len(treeOutput) = 5

\* C18: an entry whose name begins with .git is never rendered, at depth 0,
\* as a changed file or as a directory with changed files, and nothing below
\* such a directory is rendered.
C18_GitNamesNeverRendered ==
    treeStage = "rendered" =>
        \A i \in EntryLines :
            \A k \in 1..Len(treeOutput[i].path) : ~GitPrefixed(treeOutput[i].path[k])

C18_Witness ==
    /\ treeStage = "rendered"
    /\ disk = { File(<<".gitignore">>), Dir(<<".github">>), File(<<".github", "w">>),
                File(<<"a">>) }
    /\ changedFiles = { <<".gitignore">>, <<".github", "w">> }
    /\ Len(treeOutput) = 2
    /\ treeOutput[2].path = <<"a">>

\* the indices of the lines that stand for a subtree
MoreLines == { i \in 1..Len(treeOutput) : treeOutput[i].kind = "more" }

\* C19: no entry deeper than depth 3 is rendered; a rendered directory at
\* depth 3 is followed by exactly one placeholder line in place of its
\* subtree; a placeholder line occurs nowhere else and is indented for depth
\* 4, so the recursion stops there.
C19_DepthBound ==
    treeStage = "rendered" =>
        /\ \A i \in EntryLines : DepthOf(treeOutput[i].path) <= 3
        /\ \A i \in EntryLines :
               (treeOutput[i].isDir /\ DepthOf(treeOutput[i].path) = 3) =>
                   /\ i + 1 \in MoreLines
                   /\ i + 2 \notin MoreLines
        /\ \A i \in MoreLines :
               /\ i - 1 \in EntryLines
               /\ treeOutput[i - 1].isDir
               /\ DepthOf(treeOutput[i - 1].path) = 3
               /\ Len(treeOutput[i].text) = 4 + 2
               /\ treeOutput[i].text[5] = "... (more items not shown)"
        /\ Len(treeOutput) <= 1 + Cardinality(disk) + Cardinality(MoreLines)

C19_Witness ==
    /\ treeStage = "rendered"
    /\ File(<<"d", "e", "f", "g", "h">>) \in disk
    /\ <<"d", "e", "f", "g", "h">> \in changedFiles
    /\ Rendered(<<"d", "e", "f", "g">>)
    /\ ~Rendered(<<"d", "e", "f", "g", "h">>)
    /\ Cardinality(MoreLines) = 1
    /\ treeOutput[Len(treeOutput)].kind = "more"

\* the pairs of lines that show two entries of one directory, in the order
\* of the output
SiblingPairs ==
    { pair \in EntryLines \X EntryLines :
          /\ pair[1] < pair[2]
          /\ dirname(treeOutput[pair[1]].path) = dirname(treeOutput[pair[2]].path) }

DirsBeforeFiles ==
    \A pair \in SiblingPairs :
        ~(~treeOutput[pair[1]].isDir /\ treeOutput[pair[2]].isDir)

\* C20 as stated: directories before files, and entries of one kind in the
\* case-sensitive lexicographic order of their names, which is the order of
\* their code units.
C20_CodeUnitOrder ==
    treeStage = "rendered" =>
        /\ DirsBeforeFiles
        /\ \A pair \in SiblingPairs :
               treeOutput[pair[1]].isDir = treeOutput[pair[2]].isDir =>
                   CompareCodeUnits(basename(treeOutput[pair[1]].path),
                                    basename(treeOutput[pair[2]].path)) < 0

\* C20, amended: directories before files, and entries of one kind in the
\* order of String.prototype.localeCompare. On an engine with ICU that is
\* the collation order: alphabetical whatever the case, lower case before
\* upper case where the letters are the same. Only an engine built without
\* ICU orders by code units.
C20_LocaleOrder ==
    treeStage = "rendered" =>
        /\ DirsBeforeFiles
        /\ \A pair \in SiblingPairs :
               treeOutput[pair[1]].isDir = treeOutput[pair[2]].isDir =>
                   LET a == basename(treeOutput[pair[1]].path)
                       b == basename(treeOutput[pair[2]].path)
                   IN  /\ engine = "icu" => CompareCollation(a, b) < 0
                       /\ engine = "no-icu" => CompareCodeUnits(a, b) < 0

C20_Witness ==
    /\ treeStage = "rendered"
    /\ engine = "icu"
    /\ disk = { Dir(<<"Z">>), Dir(<<"d">>), File(<<"a">>), File(<<"B">>), File(<<"b">>) }
    /\ [i \in 2..6 |-> treeOutput[i].path] =
           [i \in 2..6 |-> << <<"d">>, <<"Z">>, <<"a">>, <<"b">>, <<"B">> >>[i - 1]]

\* the line that shows the entry p
LineOf(p) == CHOOSE i \in EntryLines : treeOutput[i].path = p

\* no later line shows an entry of the same directory
LastSibling(p) ==
    \A j \in EntryLines :
        dirname(treeOutput[j].path) = dirname(p) => j <= LineOf(p)

\* the indentation the ancestors of p give to the lines below them
PrefixBelow(p) ==
    [k \in 1..Len(p) |-> IF LastSibling(SubSeq(p, 1, k)) THEN "    " ELSE "|   "]

\* C21: the tree is well formed. In every rendered directory the last
\* sibling, and no other, carries the connector of a last sibling; a line
\* below an entry carries that entry's prefix extended by four blanks if the
\* entry is a last sibling and by a bar and three blanks otherwise; so a line
\* at depth d has d indentations of four characters before its connector.
C21_WellFormedTree ==
    treeStage = "rendered" =>
        /\ \A i \in EntryLines :
               LET p == treeOutput[i].path
                   d == DepthOf(p)
                   line == treeOutput[i].text
               IN  /\ Rendered(dirname(p)) \/ d = 0
                   /\ Len(line) > d + 1
                   /\ SubSeq(line, 1, d) = PrefixBelow(dirname(p))
                   /\ line[d + 1] = (IF LastSibling(p) THEN "L-- " ELSE "+-- ")
                   /\ SubSeq(line, d + 2, Len(line)) =
                          Chars(basename(p))
                              \o (IF treeOutput[i].isDir THEN <<"/">> ELSE <<>>)
                              \o <<"\n">>
        /\ \A i \in MoreLines :
               /\ i - 1 \in EntryLines
               /\ treeOutput[i].text =
                      PrefixBelow(treeOutput[i - 1].path)
                          \o <<"... (more items not shown)", "\n">>
        /\ \A i \in EntryLines :
               \E j \in EntryLines :
                   /\ dirname(treeOutput[j].path) = dirname(treeOutput[i].path)
                   /\ LastSibling(treeOutput[j].path)

C21_Witness ==
    /\ treeStage = "rendered"
    /\ disk = { Dir(<<"d">>), File(<<"d", "c">>), Dir(<<"d", "e">>), File(<<"a">>) }
    /\ changedFiles = { <<"d", "c">>, <<"d", "e", "x">> }
    /\ Len(treeOutput) = 5
    /\ treeOutput[2].text = <<"+-- ", "d", "/", "\n">>
    /\ treeOutput[3].text = <<"|   ", "+-- ", "e", "/", "\n">>
    /\ treeOutput[4].text = <<"|   ", "L-- ", "c", "\n">>
    /\ treeOutput[5].text = <<"L-- ", "a", "\n">>

\* C22: when an output path is configured and the run has obtained a final
\* answer, the answer is written to that path exactly once, and this is the
\* only file the run writes. (A run whose write itself fails is left out.)
C22_AnswerWrittenOnce ==
    /\ Len(written) <= 1
    /\ (RunOver /\ pc = "done" /\ opts.read /\ opts.output /\ thrownBy # "write") =>
           written = <<result>>

\* C30: in review mode interactivePRCreation is never called, with
\* --create-pr or without; once the answer is there the review is written to
\* the output path or printed, and the run ends.
C30_NoPrFlowInReviewMode ==
    /\ [](prStarted => (opts.read /\ ~opts.review /\ opts.createPr))
    /\ []((opts.read /\ opts.review) =>
            /\ ~prStarted
            /\ mpc \in {"end", "exited"}
            /\ (mpc = "end" /\ opts.output) => written = <<result>>
            /\ ~opts.output => written = <<>>
            /\ mpc = "exited" => thrownBy = "write")
    /\ [][(opts.read /\ opts.review) => UNCHANGED vars]_vars

C30_Witness ==
    /\ opts.read
    /\ opts.review
    /\ opts.createPr
    /\ opts.output
    /\ mpc = "end"
    /\ written = <<result>>
    /\ result # <<>>
    /\ ~prStarted

\* C23: every file read for context resolution lies inside the working
\* directory, for every requested path, absolute paths and paths with double
\* dots included.
C23_ReadsStayInWorkspace ==
    (pathStage = "called" /\ readTarget.read) =>
        /\ Len(readTarget.names) >= Len(Segments(Cwd))
        /\ SubSeq(readTarget.names, 1, Len(Segments(Cwd))) = Segments(Cwd)

\* C24: createPullRequest is called only after gh was found installed, the
\* user was found authenticated, the latest repository-access check reported
\* WRITE, ADMIN or MAINTAIN, and the final confirmation was answered yes.
C24_CreateOnlyWithPrerequisites ==
    nCreateCalls > 0 =>
        /\ ghInstalled
        /\ authStatus.authenticated
        /\ repoAccess.checks >= 1
        /\ repoAccess.permission \in {"WRITE", "ADMIN", "MAINTAIN"}
        /\ response.confirm

\* a pull request is asked for after an account switch and a second check
C24_Witness ==
    /\ nCreateCalls = 1
    /\ repoAccess.checks = 2
    /\ repoAccess.permission = "MAINTAIN"
    /\ response.confirm

\* C28: the flow never calls createPullRequest more than twice.
C28_AtMostOneRetry == nCreateCalls <= 2

\* C29: once a createPullRequest call has succeeded, no further call is made.
C29_NoCallAfterSuccess == [][nCreated > 0 => nCreateCalls' = nCreateCalls]_vars

\* s without the pieces at its end that hold white space only
RECURSIVE TrimEndPieces(_)
TrimEndPieces(s) ==
    IF s # <<>> /\ s[Len(s)] \in (WhiteSpace \cup {""})
    THEN TrimEndPieces(SubSeq(s, 1, Len(s) - 1))
    ELSE s

\* s ends with the pieces of t, white space after them apart
EndsWithPieces(s, t) ==
    LET u == TrimEndPieces(s)
    IN  /\ Len(u) >= Len(t)
        /\ SubSeq(u, Len(u) - Len(t) + 1, Len(u)) = t

\* a paragraph that names the marker convention and the cap of three files
DescribesProtocol(t) ==
    \E i, j \in 1..Len(t) :
        /\ i < j
        /\ t[i] = "[NEED_CONTEXT:filepath]"
        /\ t[j] = "3"

\* C25: for every style and mode, the text sent in round 1 ends with the
\* description of the context-request protocol, which names the
\* [NEED_CONTEXT:filepath] convention and the cap of 3 files.
C25_PromptEndsWithProtocol ==
    promptStage = "sent" =>
        /\ Len(sent) = 1
        /\ \E t \in {PrProtocol, ReviewProtocol} :
            /\ DescribesProtocol(t)
            /\ EndsWithPieces(sent[1].content, t)

\* a verbose review prompt was sent
C25_Witness ==
    /\ promptStage = "sent"
    /\ promptInput.review
    /\ promptInput.style = "verbose"
    /\ EndsWithPieces(sent[1].content, ReviewProtocol)

\* C26: provided every completion request answers or fails, a call of
\* sendPromptToOpenAI with an API key eventually returns an answer or
\* rejects, whatever the answers are.
C26_LoopTerminates ==
    (pc = "start" /\ ApiKeyPresent(hasApiKey)) ~> (pc \in {"done", "rejected"})

\* the call returned after the last round, every answer holding a marker
C26_Witness ==
    /\ pc = "done"
    /\ currentRound = maxRounds
    /\ nRequests = maxRounds
    /\ Len(reads) >= maxRounds - 1

\* C27 as stated: in every state of a call, once the round counter is set,
\* the requests posted equal the round counter and one plus the batches of
\* context resolution.
C27_CountsAgreeInEveryState ==
    currentRound >= InitialRound =>
        /\ nRequests = currentRound
        /\ nRequests = 1 + nBatches

\* C27 amended: the three counts agree whenever the loop condition is
\* evaluated and from there to the return; the success line reports the
\* requests posted; every batch is followed by a request, so a call that has
\* ended posted one request more than it resolved batches; in between, the
\* batch runs one ahead of the requests and a request in flight one ahead of
\* the round counter.
C27_CountsAgreeBetweenRounds ==
    /\ pc \in {"loop", "post", "done"} =>
            /\ nRequests = currentRound
            /\ nRequests = 1 + nBatches
    /\ pc \in {"post", "done"} => reportedRounds = nRequests
    /\ pc \in {"done", "rejected"} => nRequests = 1 + nBatches
    /\ pc \in {"resolving", "resolved"} =>
            /\ nRequests = currentRound
            /\ nRequests = nBatches
    /\ pc = "awaitN" =>
            /\ nRequests = currentRound + 1
            /\ nRequests = 1 + nBatches

\* a call returned after two batches and three requests
C27_Witness ==
    /\ pc = "done"
    /\ nBatches = 2
    /\ nRequests = 3
    /\ reportedRounds = 3

====
